---- MODULE Spec2Model ----
(***************************************************************************)
(* Push-To-Type: a model of the two global key monitors                    *)
(* (core/ptt_keybind_manager.py, core/event_tap_listener.py), of the       *)
(* press/release handlers of PushToTalkApp (main.py) that both monitors    *)
(* call, and of the injection queue and worker (core/unicode_injector.py). *)
(*                                                                         *)
(* Threads are modelled by a program counter each; one step of a thread is *)
(* one statement (or one lock-protected block) of the source.  A bounded   *)
(* wait (join(timeout), get(timeout)) may end either because what it waits *)
(* for happened or because the timeout elapsed.                            *)
(***************************************************************************)
EXTENDS Integers, Sequences, FiniteSets, Bags, TLC

(***************************************************************************)
(* Bounds of the model.                                                    *)
(***************************************************************************)
\* physical key-down transitions (auto-repeats included) in one behaviour
MaxKeyDowns == 3
\* the same, when the application's handlers are registered
MaxAppKeyDowns == 2
\* key events waiting for one monitor's delivery thread
MaxQueue == 2
\* inject_text calls in one behaviour
MaxTexts == 2
\* calls of stop, disable, enable and flush_and_clear in one behaviour
MaxOps == 2
\* signals delivered to the process in one behaviour
MaxSignals == 2
\* turns of one session, words of one turn, Turn messages in one behaviour
MaxTurns == 2
MaxWords == 3
MaxEvents == 3
MaxParts == 3
\* microphone streams opened in one behaviour
MaxStreams == 2
\* the quiet period and the bound on the wait, in sleeps of the wait
MaxQuiet == 3
MaxWait == 4
\* passes of the stuck-state guard in one behaviour
MaxFires == 1
\* key-down events in one behaviour once the guard has passed
MaxStuckKeyDowns == 3
\* callbacks that raise an exception in one behaviour
MaxRaises == 2
\* supervising threads, and delivery threads, a monitor creates
MaxMonThreads == 3
\* key-downs in one behaviour of the application being shut down
MaxQuitKeyDowns == 2
\* delivery threads that die in one behaviour
MaxDeaths == 3

(***************************************************************************)
(* Keys.  On macOS pynput reports the left shift as Key.shift_l (of which  *)
(* Key.shift is an alias), the right shift as Key.shift_r; "a" stands for  *)
(* any other key.  The handlers below keep the source's tests on the       *)
(* generic Key.shift; the keyboard never produces it.                      *)
(***************************************************************************)
shift_l == "shift_l"
shift_r == "shift_r"
shift == "shift"
OtherKey == "a"
Keys == {shift_l, shift_r, OtherKey}
Monitors == {"kbm", "quartz"}
None == 0

\* PTTState
IDLE == "idle"
PRESSED == "pressed"
RELEASED == "released"

VARIABLES
  wd                    \* the watchdog thread and what it has stopped

VARIABLES
  \* ---- environment: the keyboard and the OS event channel
  phys,                 \* keys physically down
  mode,                 \* per monitor: the OS delivers "all", "none" or "lossy"
  nDown,                \* key-down transitions so far
  maxDown,              \* the bound on nDown in this behaviour
  keyset,               \* the keys the user touches in this behaviour
  callbacks,            \* what is registered: "test" callbacks or the "app"
  qK,                   \* events waiting for the pynput listener thread
  qQ,                   \* events waiting for the event-tap run-loop thread
  \* ---- PTTKeybindManager
  ptt_keybind,          \* the registered PTTKeybind
  pressed_keys,
  left_shift_pressed,
  right_shift_pressed,
  ptt_state,
  active_trigger_keys,
  kthreads,             \* bag of the callback threads _trigger_* started
  \* ---- EventTapPTTListener
  q_pressed,            \* _pressed
  q_active,             \* _active
  qthread,              \* the run-loop thread: idle, or inside a callback
  \* ---- PushToTalkApp
  shutting_down,
  ptt_active,
  is_transcribing,
  transcriber,          \* None or the current PTTTranscriber
  running,              \* transcribers started and not yet stopped
  nSessions,            \* transcribers created so far
  \* ---- history (observation only)
  hist

cfgVars == <<mode, maxDown, keyset, callbacks>>
envVars == <<phys, nDown, qK, qQ, cfgVars>>
kbmVars == <<ptt_keybind, pressed_keys, left_shift_pressed, right_shift_pressed,
             ptt_state, active_trigger_keys>>
quartzVars == <<q_pressed, q_active>>
appVars == <<shutting_down, ptt_active, is_transcribing, transcriber, running,
             nSessions>>
keyVars == <<envVars, kbmVars, kthreads, quartzVars, qthread, appVars, hist>>

\* ---- UnicodeInjector
VARIABLES
  stop_typing,
  worker_stop,          \* _worker_stop
  generation,           \* _generation
  accept_new_work,      \* _accept_new_work, the gate
  text_queue,           \* _text_queue: items [gen, id]
  worker_thread,        \* _worker_thread: None or a worker
  injecting,            \* _injecting
  workers,              \* per worker: [pc, item]
  producer,             \* the thread inside inject_text, or idle
  controller,           \* the thread inside stop/disable/flush_and_clear
  track,                \* the part of the history that is recorded
  ihist                 \* history (observation only)

injFields == <<stop_typing, worker_stop, generation, accept_new_work,
               text_queue, worker_thread, injecting>>
injVars == <<injFields, workers, producer, controller, track, ihist>>

\* ---- PTTTranscriber
VARIABLES
  session               \* the transcriber's fields and the position of the
                        \* thread inside stop_transcription

ptVars == <<session>>

\* ---- the main thread of the process, and the reducer of Turn messages
VARIABLES
  startup               \* PushToTalkApp.__init__: the configured binding
                        \* string and the binding made of it
VARIABLES
  audio                 \* the microphone stream and the threads using it
VARIABLES
  qwait                 \* the clock and the quiet-period wait of a stop
extVars == <<startup, audio, qwait, wd>>

VARIABLES
  main,
  reducer
restVars == <<main, reducer, extVars>>

\* the None of the key and char fields of a PTTKeybind (keys are strings)
NoKey == "None"

\* PTTKeybind(modifiers={shift_l, shift_r}): the default binding
LRShift == [modifiers |-> {shift_l, shift_r}, key |-> NoKey, char |-> NoKey]

(***************************************************************************)
(* PTTKeybind                                                              *)
(***************************************************************************)
\* PTTKeybind.matches(pressed_keys, current_key); a character key is named
\* by its character
matches(kb, pressed, current_key) ==
  IF kb.key = NoKey /\ kb.char = NoKey
  THEN /\ \A m \in kb.modifiers : m \in pressed
       /\ current_key \in kb.modifiers
  ELSE /\ \A m \in kb.modifiers : m \in pressed
       /\ \/ (kb.key # NoKey /\ current_key = kb.key)
          \/ (kb.char # NoKey /\ current_key = kb.char)

\* PTTKeybind.is_still_held(pressed_keys)
is_still_held(kb, pressed) == \A m \in kb.modifiers : m \in pressed

(***************************************************************************)
(* PTTKeybindManager.  The handlers run under self._lock, so each is one   *)
(* step; they are written as functions of the manager's fields k, and      *)
(* k.spawn names the callback thread the handler started, if any.          *)
(***************************************************************************)
KbmState ==
  [pressed_keys |-> pressed_keys, left |-> left_shift_pressed,
   right |-> right_shift_pressed, ptt_state |-> ptt_state,
   active_trigger_keys |-> active_trigger_keys, spawn |-> "none"]

\* PTTKeybindManager._trigger_press
trigger_press(k) ==
  IF k.ptt_state # IDLE THEN k
  ELSE [k EXCEPT !.ptt_state = PRESSED, !.spawn = "press"]

\* PTTKeybindManager._trigger_release (a release callback is registered)
trigger_release(k) ==
  IF k.ptt_state # PRESSED THEN k
  ELSE [k EXCEPT !.ptt_state = RELEASED, !.active_trigger_keys = {},
                 !.spawn = "release"]

\* PTTKeybindManager._on_press(key)
on_press(kb, k, key) ==
  LET k1 == [k EXCEPT
               !.left = IF key \in {shift_l, shift} THEN TRUE ELSE @,
               !.right = IF key \notin {shift_l, shift} /\ key = shift_r
                         THEN TRUE ELSE @,
               !.pressed_keys = @ \cup {key}]
  IN  IF k1.ptt_state = IDLE
      THEN IF shift_l \in kb.modifiers /\ shift_r \in kb.modifiers
           THEN IF k1.left /\ k1.right
                THEN trigger_press(
                       [k1 EXCEPT !.active_trigger_keys = {shift_l, shift_r}])
                ELSE k1
           ELSE IF matches(kb, k1.pressed_keys, key)
                THEN trigger_press(
                       [k1 EXCEPT !.active_trigger_keys = k1.pressed_keys])
                ELSE k1
      ELSE k1

\* _on_release with the shift pair released only once both shifts are up
on_release_whenBothUp(kb, k, key) ==
  LET isL == key \in {shift_l, shift}
      isR == ~isL /\ key = shift_r
      k1 == [k EXCEPT
               !.left = IF isL THEN FALSE ELSE @,
               !.right = IF isR THEN FALSE ELSE @,
               !.pressed_keys = @ \ {key}]
  IN  IF k1.ptt_state = PRESSED /\ ~k1.left /\ ~k1.right
      THEN trigger_release(k1) ELSE k1

\* PTTKeybindManager._on_release(key)
on_release(kb, k, key) ==
  LET isL == key \in {shift_l, shift}
      isR == ~isL /\ key = shift_r
      shift_released == isL \/ isR
      gone == {key} \cup (IF key \in {shift_l, shift_r} THEN {shift}
                          ELSE IF key = shift THEN {shift_l, shift_r} ELSE {})
      k1 == [k EXCEPT
               !.left = IF isL THEN FALSE ELSE @,
               !.right = IF isR THEN FALSE ELSE @,
               !.pressed_keys = @ \ gone]
  IN  IF k1.ptt_state = PRESSED
      THEN IF shift_l \in kb.modifiers /\ shift_r \in kb.modifiers
           THEN IF shift_released /\ (~k1.left \/ ~k1.right)
                THEN trigger_release(k1) ELSE k1
           ELSE IF key \in k1.active_trigger_keys
                THEN trigger_release(k1)
                ELSE IF ~is_still_held(kb, k1.pressed_keys)
                     THEN trigger_release(k1) ELSE k1
      ELSE k1

(***************************************************************************)
(* EventTapPTTListener.  The event callback runs on the run-loop thread    *)
(* and calls on_press / on_release itself, so the thread stays inside the  *)
(* application's handler until that returns.                               *)
(***************************************************************************)
\* EventTapPTTListener._matches_ptt (require_left_right_shift = True)
matches_ptt(pressed) == pressed = {shift_l, shift_r}

\* CGEventSourceKeyState for the two shift keycodes: the keys down now
KeyStateQuery == phys \cap {shift_l, shift_r}

\* _event_callback keeping in _pressed what the key-state query no longer
\* reports
event_callback_addOnly(pressed, active) ==
  LET p == pressed \cup KeyStateQuery
      call == IF ~active /\ matches_ptt(p) THEN "press"
              ELSE IF active /\ ~matches_ptt(p) THEN "release"
              ELSE "none"
  IN  [pressed |-> p,
       active |-> IF call = "press" THEN TRUE
                  ELSE IF call = "release" THEN FALSE ELSE active,
       call |-> call]

\* _event_callback with _handle_press not looking at _active
event_callback_pressWheneverMatched(pressed, active) ==
  LET down == KeyStateQuery
      p == (pressed \ ({shift_l, shift_r} \ down)) \cup down
      call == IF matches_ptt(p) THEN "press"
              ELSE IF active THEN "release" ELSE "none"
  IN  [pressed |-> p, active |-> matches_ptt(p), call |-> call]

\* EventTapPTTListener._event_callback up to the callback it invokes:
\* both shifts are added to or discarded from _pressed as the key-state
\* query says, then _handle_press and _handle_release decide which callback
\* runs ("press", "release" or "none")
event_callback(pressed, active) ==
  LET down == KeyStateQuery
      p == (pressed \ ({shift_l, shift_r} \ down)) \cup down
      call == IF ~active /\ matches_ptt(p) THEN "press"
              ELSE IF active /\ ~matches_ptt(p) THEN "release"
              ELSE "none"
  IN  [pressed |-> p,
       active |-> IF call = "press" THEN TRUE
                  ELSE IF call = "release" THEN FALSE ELSE active,
       call |-> call]

(***************************************************************************)
(* PushToTalkApp: the handlers both monitors register.  A thread inside a  *)
(* handler is [pc, t]; a step function maps the thread and the             *)
(* application's fields a to the thread and the fields after one           *)
(* statement.  Nothing in these handlers is protected by a lock.           *)
(***************************************************************************)
AppState ==
  [shutting_down |-> shutting_down, ptt_active |-> ptt_active,
   is_transcribing |-> is_transcribing, transcriber |-> transcriber,
   running |-> running, nSessions |-> nSessions, stops |-> hist.stops]

Goto(th, a, pc) == [th |-> [th EXCEPT !.pc = pc], app |-> a]

\* PushToTalkApp._on_ptt_press
on_ptt_press(th, a) ==
  CASE th.pc = "P0" ->   \* if shutting_down or ptt_active: return
         Goto(th, a, IF a.shutting_down \/ a.ptt_active THEN "end" ELSE "P1")
    [] th.pc = "P1" ->   \* ptt_pressed_at = now; ptt_active = True
         Goto(th, [a EXCEPT !.ptt_active = TRUE], "P2")
    [] th.pc = "P2" ->   \* if not is_transcribing: _start_transcription()
         Goto(th, a, IF ~a.is_transcribing THEN "S0" ELSE "end")

\* PushToTalkApp._start_transcription: a new PTTTranscriber is created and
\* its start_transcription() called
start_transcription(th, a) ==
  CASE th.pc = "S0" ->   \* if is_transcribing: return
         Goto(th, a, IF a.is_transcribing THEN "end" ELSE "S1")
    [] th.pc = "S1" ->   \* is_transcribing = True
         Goto(th, [a EXCEPT !.is_transcribing = TRUE], "S2")
    [] th.pc = "S2" ->   \* transcriber = PTTTranscriber(...); start
         Goto(th, [a EXCEPT !.nSessions = @ + 1,
                            !.transcriber = a.nSessions + 1,
                            !.running = @ \cup {a.nSessions + 1}], "end")

\* PushToTalkApp._on_ptt_release
on_ptt_release(th, a) ==
  CASE th.pc = "R0" ->   \* if shutting_down or not ptt_active: return
         Goto(th, a, IF a.shutting_down \/ ~a.ptt_active THEN "end" ELSE "R1")
    [] th.pc = "R1" ->   \* ptt_pressed_at = None; ptt_active = False
         Goto(th, [a EXCEPT !.ptt_active = FALSE], "R2")
    [] th.pc = "R2" ->   \* if is_transcribing: _stop_transcription(False)
         Goto(th, a, IF a.is_transcribing THEN "T0" ELSE "end")

\* PushToTalkApp._stop_transcription; th.t is the transcriber whose
\* stop_transcription() is running (it blocks for the quiet period and the
\* joins, so its call and its return are two steps)
stop_transcription(th, a) ==
  CASE th.pc = "T0" ->   \* if not is_transcribing or not transcriber: return
         Goto(th, a, IF ~a.is_transcribing \/ a.transcriber = None
                     THEN "end" ELSE "T1")
    [] th.pc = "T1" ->   \* if self.transcriber: transcriber.stop_transcription(
         IF a.transcriber = None THEN Goto(th, a, "T3")
         ELSE Goto([th EXCEPT !.t = a.transcriber], a, "T2")
    [] th.pc = "T2" ->   \* ... stop_transcription returns
         Goto([th EXCEPT !.t = None],
              [a EXCEPT !.running = @ \ {th.t}, !.stops = @ + 1], "T3")
    [] th.pc = "T3" ->   \* transcriber = None; is_transcribing = False
         Goto(th, [a EXCEPT !.transcriber = None, !.is_transcribing = FALSE],
              "end")

\* the callbacks the repository's monitor tests register (they print and
\* count): one step each
test_callback(th, a) == Goto(th, a, "end")

PressPcs == {"P0", "P1", "P2", "S0", "S1", "S2", "CBP"}
ReleasePcs == {"R0", "R1", "R2", "T0", "T1", "T2", "T3", "CBR"}

\* one statement of a thread that is inside a handler
AppStep(th, a) ==
  CASE th.pc \in {"P0", "P1", "P2"} -> on_ptt_press(th, a)
    [] th.pc \in {"S0", "S1", "S2"} -> start_transcription(th, a)
    [] th.pc \in {"R0", "R1", "R2"} -> on_ptt_release(th, a)
    [] th.pc \in {"T0", "T1", "T2", "T3"} -> stop_transcription(th, a)
    [] th.pc \in {"CBP", "CBR"} -> test_callback(th, a)

\* the application's fields after a step
SetApp(a) ==
  /\ ptt_active' = a.ptt_active
  /\ is_transcribing' = a.is_transcribing
  /\ transcriber' = a.transcriber
  /\ running' = a.running
  /\ nSessions' = a.nSessions
  /\ UNCHANGED shutting_down

(***************************************************************************)
(* History.  Per monitor: the intervals of "pressed set = binding" begun   *)
(* and ended (kInt, kEnd, qInt, qEnd) and the on_press / on_release calls  *)
(* made (kPress, kRel, qPress, qRel); the intervals in which both shifts   *)
(* are physically down (pInt, pEnd); the session stops completed; and the  *)
(* last event a monitor processed: the trigger's state before it, the      *)
(* callback it led to, whether the pressed set then equalled the binding,  *)
(* whether both shifts were physically down, whether the event's key was,  *)
(* and whether it was the last event waiting for the monitor (fresh); the  *)
(* callbacks that raised an exception (raised).                            *)
(***************************************************************************)
NoEvent ==
  [mon |-> "none", ev |-> <<"none", "none">>, before |-> IDLE,
   call |-> "none", exact |-> TRUE, held |-> TRUE, keyDown |-> FALSE,
   fresh |-> TRUE]

HistInit ==
  [kInt |-> 0, kEnd |-> 0, kPress |-> 0, kRel |-> 0,
   qInt |-> 0, qEnd |-> 0, qPress |-> 0, qRel |-> 0,
   pInt |-> 0, pEnd |-> 0, stops |-> 0, last |-> NoEvent, raised |-> 0]

Bit(b) == IF b THEN 1 ELSE 0

\* both bound shift keys are physically down
Held(p) == {shift_l, shift_r} \subseteq p

(***************************************************************************)
(* The keyboard and the OS event channel.                                  *)
(***************************************************************************)
\* the monitors the OS may deliver one event to
DeliverySets ==
  {dl \in SUBSET Monitors :
     \A m \in Monitors : /\ mode[m] = "all" => m \in dl
                         /\ mode[m] = "none" => m \notin dl}

Deliver(ev, dl) ==
  /\ "kbm" \in dl => Len(qK) < MaxQueue
  /\ "quartz" \in dl => Len(qQ) < MaxQueue
  /\ qK' = IF "kbm" \in dl /\ wd.kbm_up THEN Append(qK, ev) ELSE qK
  /\ qQ' = IF "quartz" \in dl /\ wd.quartz_up THEN Append(qQ, ev) ELSE qQ

KeyDown(k) ==
  /\ k \in keyset \ phys
  /\ nDown < maxDown
  /\ phys' = phys \cup {k}
  /\ nDown' = nDown + 1
  /\ \E dl \in DeliverySets : Deliver(<<"down", k>>, dl)
  /\ hist' = [hist EXCEPT !.pInt = @ + Bit(~Held(phys) /\ Held(phys'))]
  /\ UNCHANGED <<cfgVars, kbmVars, kthreads, quartzVars, qthread, appVars,
                 injVars, ptVars, restVars>>

\* auto-repeat of a held key (modifier keys do not repeat)
KeyRepeat(k) ==
  /\ k \in keyset \cap phys
  /\ k = OtherKey
  /\ nDown < maxDown
  /\ nDown' = nDown + 1
  /\ \E dl \in DeliverySets : Deliver(<<"down", k>>, dl)
  /\ UNCHANGED <<phys, cfgVars, kbmVars, kthreads, quartzVars, qthread,
                 appVars, hist, injVars, ptVars, restVars>>

KeyUp(k) ==
  /\ k \in phys
  /\ phys' = phys \ {k}
  /\ \E dl \in DeliverySets : Deliver(<<"up", k>>, dl)
  /\ hist' = [hist EXCEPT !.pEnd = @ + Bit(Held(phys) /\ ~Held(phys'))]
  /\ UNCHANGED <<nDown, cfgVars, kbmVars, kthreads, quartzVars, qthread,
                 appVars, injVars, ptVars, restVars>>

(***************************************************************************)
(* The pynput listener thread of PTTKeybindManager takes one event and     *)
(* runs _on_press or _on_release on it.                                    *)
(***************************************************************************)
NewThread(kind) ==
  [pc |-> IF callbacks = "app" THEN (IF kind = "press" THEN "P0" ELSE "R0")
          ELSE (IF kind = "press" THEN "CBP" ELSE "CBR"),
   t |-> None]

KbmDeliver ==
  /\ qK # <<>>
  /\ wd.kbm_up
  /\ LET ev == Head(qK)
         k == IF ev[1] = "down" THEN on_press(ptt_keybind, KbmState, ev[2])
              ELSE on_release(ptt_keybind, KbmState, ev[2])
         was == pressed_keys = ptt_keybind.modifiers
         is == k.pressed_keys = ptt_keybind.modifiers
     IN  /\ qK' = Tail(qK)
         /\ pressed_keys' = k.pressed_keys
         /\ left_shift_pressed' = k.left
         /\ right_shift_pressed' = k.right
         /\ ptt_state' = k.ptt_state
         /\ active_trigger_keys' = k.active_trigger_keys
         /\ kthreads' = IF k.spawn = "none" THEN kthreads
                        ELSE kthreads (+) SetToBag({NewThread(k.spawn)})
         /\ hist' = [hist EXCEPT
                       !.kInt = @ + Bit(~was /\ is),
                       !.kEnd = @ + Bit(was /\ ~is),
                       !.kPress = @ + Bit(k.spawn = "press"),
                       !.kRel = @ + Bit(k.spawn = "release"),
                       !.last = [mon |-> "kbm", ev |-> ev,
                                 before |-> ptt_state, call |-> k.spawn,
                                 exact |-> is, held |-> Held(phys),
                                 keyDown |-> ev[2] \in phys,
                                 fresh |-> Tail(qK) = <<>>]]
  /\ UNCHANGED <<phys, nDown, cfgVars, qQ, ptt_keybind, quartzVars, qthread,
                 appVars, injVars, ptVars, restVars>>

\* a callback thread started by _trigger_press or _trigger_release runs one
\* statement; the release thread ends with ptt_state = IDLE under the lock
KbmThreadStep(th) ==
  /\ BagIn(th, kthreads)
  /\ IF th.pc = "F0"
     THEN /\ ptt_state' = IDLE
          /\ kthreads' = kthreads (-) SetToBag({th})
          /\ UNCHANGED <<appVars, hist>>
     ELSE LET r == AppStep(th, AppState)
              next == IF r.th.pc # "end" THEN SetToBag({r.th})
                      ELSE IF th.pc \in ReleasePcs
                           THEN SetToBag({[pc |-> "F0", t |-> None]})
                           ELSE EmptyBag
          IN  /\ SetApp(r.app)
              /\ hist' = [hist EXCEPT !.stops = r.app.stops]
              /\ kthreads' = (kthreads (-) SetToBag({th})) (+) next
              /\ UNCHANGED ptt_state
  /\ UNCHANGED <<envVars, ptt_keybind, pressed_keys, left_shift_pressed,
                 right_shift_pressed, active_trigger_keys, quartzVars, qthread,
                 injVars, ptVars, restVars>>

(***************************************************************************)
(* The run-loop thread of EventTapPTTListener takes one event when it is   *)
(* not inside a callback, and runs the handler it called to its return.    *)
(***************************************************************************)
QIdle == [pc |-> "idle", t |-> None]

QuartzDeliver ==
  /\ qthread.pc = "idle"
  /\ qQ # <<>>
  /\ wd.quartz_up
  /\ LET r == event_callback(q_pressed, q_active)
         was == matches_ptt(q_pressed)
         is == matches_ptt(r.pressed)
     IN  /\ qQ' = Tail(qQ)
         /\ q_pressed' = r.pressed
         /\ q_active' = r.active
         /\ qthread' = IF r.call = "none" THEN QIdle ELSE NewThread(r.call)
         /\ hist' = [hist EXCEPT
                       !.qInt = @ + Bit(~was /\ is),
                       !.qEnd = @ + Bit(was /\ ~is),
                       !.qPress = @ + Bit(r.call = "press"),
                       !.qRel = @ + Bit(r.call = "release"),
                       !.last = [mon |-> "quartz", ev |-> Head(qQ),
                                 before |-> IF q_active THEN PRESSED ELSE IDLE,
                                 call |-> r.call, exact |-> is,
                                 held |-> Held(phys),
                                 keyDown |-> Head(qQ)[2] \in phys,
                                 fresh |-> Tail(qQ) = <<>>]]
  /\ UNCHANGED <<phys, nDown, cfgVars, qK, kbmVars, kthreads, appVars,
                 injVars, ptVars, restVars>>

QuartzThreadStep ==
  /\ qthread.pc # "idle"
  /\ LET r == AppStep(qthread, AppState)
     IN  /\ SetApp(r.app)
         /\ hist' = [hist EXCEPT !.stops = r.app.stops]
         /\ qthread' = IF r.th.pc = "end" THEN QIdle ELSE r.th
  /\ UNCHANGED <<envVars, kbmVars, kthreads, quartzVars, injVars, ptVars, restVars>>

(***************************************************************************)
(* A callback that raises.  Any callback may raise an exception instead of *)
(* returning; what the monitor does then is in the try statement around    *)
(* the call.                                                               *)
(***************************************************************************)
\* run_callback of _trigger_release without its finally clause
run_callback_noFinally(th) == EmptyBag

\* run_callback of _trigger_press and _trigger_release once the callback
\* has raised: the exception is printed and the thread of a release goes on
\* to its finally clause; the result is what is left of the thread
run_callback(th) ==
  IF th.pc \in ReleasePcs THEN SetToBag({[pc |-> "F0", t |-> None]})
  ELSE EmptyBag

\* the callback running in a thread of the hook-library monitor raises
KbmCallbackRaises(th) ==
  /\ BagIn(th, kthreads)
  /\ th.pc \in PressPcs \cup ReleasePcs
  /\ hist.raised < MaxRaises
  /\ kthreads' = (kthreads (-) SetToBag({th})) (+) run_callback(th)
  /\ hist' = [hist EXCEPT !.raised = @ + 1]
  /\ UNCHANGED <<envVars, kbmVars, quartzVars, qthread, appVars, injVars,
                 ptVars, restVars>>

\* _handle_press and _handle_release once the callback has raised: except
\* Exception: pass, and _event_callback returns the event
handle_except(th) == QIdle

\* the callback the event-tap monitor is inside raises
QuartzCallbackRaises ==
  /\ qthread.pc # "idle"
  /\ hist.raised < MaxRaises
  /\ qthread' = handle_except(qthread)
  /\ hist' = [hist EXCEPT !.raised = @ + 1]
  /\ UNCHANGED <<envVars, kbmVars, kthreads, quartzVars, appVars, injVars,
                 ptVars, restVars>>

(***************************************************************************)
(* UnicodeInjector (paste mode, the default).  Three kinds of thread use   *)
(* it: the producer (the websocket thread, which calls inject_text), the   *)
(* controller (the thread that calls stop, disable, enable and             *)
(* flush_and_clear) and the workers _start_worker creates.  The worker     *)
(* started by the inject_text call for text i is worker i.  The step       *)
(* functions map a thread and the injector's fields s to the thread and    *)
(* the fields after one statement or one block under self._lock.           *)
(***************************************************************************)
TextIds == 1..MaxTexts
NoItem == [gen |-> None, id |-> None]

InjState ==
  [stop_typing |-> stop_typing, worker_stop |-> worker_stop,
   generation |-> generation, accept_new_work |-> accept_new_work,
   text_queue |-> text_queue, worker_thread |-> worker_thread,
   injecting |-> injecting, workers |-> workers]

\* self._worker_thread and self._worker_thread.is_alive()
is_alive(s) ==
  s.worker_thread # None /\ s.workers[s.worker_thread].pc # "dead"

IGoto(th, s, pc) == [th |-> [th EXCEPT !.pc = pc], inj |-> s]

\* inject_text without the gate check
inject_text_ignoringGate(p, s) ==
  CASE p.pc = "I0" -> IGoto(p, [s EXCEPT !.stop_typing = FALSE], "I1")
    [] p.pc = "I1" -> IGoto([p EXCEPT !.gen = s.generation], s, "I2")
    [] p.pc = "I2" ->
         IGoto(p, [s EXCEPT !.text_queue =
                              Append(@, [gen |-> p.gen, id |-> p.id])], "I3")
    [] p.pc = "I3" -> IGoto(p, s, IF ~is_alive(s) THEN "SW0" ELSE "end")

\* UnicodeInjector.inject_text(text), text not empty; p = [pc, id, gen, ..]
inject_text(p, s) ==
  CASE p.pc = "I0" ->   \* self.stop_typing.clear()
         IGoto(p, [s EXCEPT !.stop_typing = FALSE], "I1")
    [] p.pc = "I1" ->   \* with lock: if not gate: return; gen = generation
         IF ~s.accept_new_work THEN IGoto(p, s, "end")
         ELSE IGoto([p EXCEPT !.gen = s.generation], s, "I2")
    [] p.pc = "I2" ->   \* self._text_queue.put((gen, text, ..))
         IGoto(p, [s EXCEPT !.text_queue =
                              Append(@, [gen |-> p.gen, id |-> p.id])], "I3")
    [] p.pc = "I3" ->   \* if no worker thread or it is not alive
         IGoto(p, s, IF ~is_alive(s) THEN "SW0" ELSE "end")

\* UnicodeInjector._start_worker
start_worker(p, s) ==
  CASE p.pc = "SW0" ->  \* self._worker_stop.clear()
         IGoto(p, [s EXCEPT !.worker_stop = FALSE], "SW1")
    [] p.pc = "SW1" ->  \* self._worker_thread = Thread(..); start()
         IGoto(p, [s EXCEPT !.worker_thread = p.id,
                            !.workers[p.id] = [pc |-> "W1", item |-> NoItem]],
               "end")

\* the loop of _worker, after its initial sleep; w = [pc, item]
worker(w, s) ==
  CASE w.pc = "W1" ->   \* while not self._worker_stop.is_set()
         IGoto(w, s, IF s.worker_stop THEN "dead" ELSE "W2")
    [] w.pc = "W2" ->   \* with lock: if not gate: break
         IGoto(w, s, IF ~s.accept_new_work THEN "dead" ELSE "W3")
    [] w.pc = "W3" ->   \* item = queue.get(timeout=0.1); Empty: continue
         IF s.text_queue = <<>> THEN IGoto(w, s, "W1")
         ELSE IGoto([w EXCEPT !.item = Head(s.text_queue)],
                    [s EXCEPT !.text_queue = Tail(@)], "W4")
    [] w.pc = "W4" ->   \* stale generation or gate closed: task_done
         IF w.item.gen # s.generation \/ ~s.accept_new_work
         THEN IGoto([w EXCEPT !.item = NoItem], s, "W1")
         ELSE IGoto(w, s, "PT0")

\* _paste_text without its check of the gate and the generation
paste_text_unchecked(w, s) ==
  CASE w.pc = "PT0" -> IGoto(w, [s EXCEPT !.injecting = TRUE], "PT1")
    [] w.pc = "PT1" -> IGoto(w, s, "PT2")
    [] w.pc = "PT2" -> IGoto(w, s, "PT3")
    [] w.pc = "PT3" -> IGoto(w, s, "PT4")
    [] w.pc = "PT4" ->
         IGoto([w EXCEPT !.item = NoItem], [s EXCEPT !.injecting = FALSE],
               "W1")

\* UnicodeInjector._paste_text(pending, item_gen), then task_done
paste_text(w, s) ==
  CASE w.pc = "PT0" ->  \* with lock: gate closed or stale: return
         IF ~s.accept_new_work \/ w.item.gen # s.generation
         THEN IGoto([w EXCEPT !.item = NoItem], s, "W1")
         ELSE IGoto(w, [s EXCEPT !.injecting = TRUE], "PT1")
    [] w.pc = "PT1" ->  \* pbpaste; pbcopy <- text
         IGoto(w, s, "PT2")
    [] w.pc = "PT2" ->  \* CGEventPost(Cmd+V down)
         IGoto(w, s, "PT3")
    [] w.pc = "PT3" ->  \* CGEventPost(Cmd+V up)
         IGoto(w, s, "PT4")
    [] w.pc = "PT4" ->  \* pbcopy <- old clipboard; injecting.clear()
         IGoto([w EXCEPT !.item = NoItem], [s EXCEPT !.injecting = FALSE],
               "W1")

\* the item whose text the statement at w.pc hands to the OS (a clipboard
\* write or a posted key event), None when the statement has no such effect
os_effect(w) ==
  IF w.pc \in {"PT1", "PT2", "PT3", "PT4"} THEN w.item.id ELSE None

\* stop without the loop that drains the queue
stop_withoutDrain(c, s) ==
  CASE c.pc = "ST0" -> IGoto(c, [s EXCEPT !.stop_typing = TRUE], "ST1")
    [] c.pc = "ST1" -> IGoto(c, [s EXCEPT !.worker_stop = TRUE], "ST2")
    [] c.pc = "ST2" ->
         IGoto(c, IF c.inval THEN [s EXCEPT !.generation = @ + 1] ELSE s,
               "ST3")
    [] c.pc = "ST3" -> IGoto(c, s, "ST4")
    [] c.pc = "ST4" -> IGoto(c, s, "ST5")
    [] c.pc = "ST5" -> IGoto(c, [s EXCEPT !.worker_thread = None], "end")

\* UnicodeInjector.stop(invalidate_generation); c = [pc, inval]
stop(c, s) ==
  CASE c.pc = "ST0" ->  \* self.stop_typing.set()
         IGoto(c, [s EXCEPT !.stop_typing = TRUE], "ST1")
    [] c.pc = "ST1" ->  \* self._worker_stop.set()
         IGoto(c, [s EXCEPT !.worker_stop = TRUE], "ST2")
    [] c.pc = "ST2" ->  \* if invalidate_generation: generation += 1
         IGoto(c, IF c.inval THEN [s EXCEPT !.generation = @ + 1] ELSE s,
               "ST3")
    [] c.pc = "ST3" ->  \* get_nowait() until Empty
         IF s.text_queue = <<>> THEN IGoto(c, s, "ST4")
         ELSE IGoto(c, [s EXCEPT !.text_queue = Tail(@)], "ST3")
    [] c.pc = "ST4" ->  \* if worker alive: join(timeout=2.0)
         IGoto(c, s, "ST5")
    [] c.pc = "ST5" ->  \* self._worker_thread = None
         IGoto(c, [s EXCEPT !.worker_thread = None], "end")

\* UnicodeInjector.disable: its locked block, then stop(False)
disable(c, s) ==
  IGoto([c EXCEPT !.inval = FALSE],
        [s EXCEPT !.accept_new_work = FALSE, !.generation = @ + 1], "ST0")

\* UnicodeInjector.enable
enable(c, s) == IGoto(c, [s EXCEPT !.accept_new_work = TRUE], "end")

\* UnicodeInjector.flush_and_clear
flush_and_clear(c, s) ==
  CASE c.pc = "F0" ->   \* with lock: gate closed; generation += 1
         IGoto(c, [s EXCEPT !.accept_new_work = FALSE,
                            !.generation = @ + 1], "F1")
    [] c.pc = "F1" ->   \* self.stop_typing.set()
         IGoto(c, [s EXCEPT !.stop_typing = TRUE], "F2")
    [] c.pc = "F2" ->   \* self._worker_stop.set()
         IGoto(c, [s EXCEPT !.worker_stop = TRUE], "F3")
    [] c.pc = "F3" ->   \* get_nowait() until Empty
         IF s.text_queue = <<>> THEN IGoto(c, s, "F4")
         ELSE IGoto(c, [s EXCEPT !.text_queue = Tail(@)], "F3")
    [] c.pc = "F4" ->   \* wait <= 0.1 s while injecting; join(timeout=2.0)
         IGoto(c, s, "F5")
    [] c.pc = "F5" ->   \* self._worker_thread = None; drain sleep
         IGoto(c, [s EXCEPT !.worker_thread = None], "end")

\* UnicodeInjector.wait_idle(timeout); c.late: the timeout has elapsed when
\* the loop condition is evaluated; c.ret: the value returned
wait_idle(c, s) ==
  CASE c.pc = "WI0" ->  \* while (time.time() - start) < timeout
         IF c.late THEN IGoto([c EXCEPT !.ret = FALSE, !.late = FALSE], s, "end")
         ELSE IGoto(c, s, "WI1")
    [] c.pc = "WI1" ->  \* worker_idle = no worker thread or it is not alive
         IGoto([c EXCEPT !.worker_idle = ~is_alive(s)], s, "WI2")
    [] c.pc = "WI2" ->  \* queue_empty = self._text_queue.empty()
         IGoto([c EXCEPT !.queue_empty = s.text_queue = <<>>], s, "WI3")
    [] c.pc = "WI3" ->  \* not_injecting; return True, or sleep and loop
         IF (c.worker_idle \/ c.queue_empty) /\ ~s.injecting
         THEN IGoto([c EXCEPT !.ret = TRUE, !.worker_idle = FALSE,
                              !.queue_empty = FALSE], s, "end")
         ELSE IGoto([c EXCEPT !.worker_idle = FALSE, !.queue_empty = FALSE],
                    s, "WI0")

\* join(timeout) returns once the worker is dead or the timeout has elapsed
join_returns(s, timeout) == ~is_alive(s) \/ timeout

(***************************************************************************)
(* History of the injector.  enq: the texts put on the queue; dropped /    *)
(* accepted: the texts whose inject_text call ran and returned wholly      *)
(* while the gate was closed / open; osIds: the texts with an OS effect;   *)
(* lastOs, prevMax: the text of the latest OS effect and the largest text  *)
(* with an OS effect before it; stopCall / stopBump: the texts that were   *)
(* on the queue when the stop() in progress executed its first statement / *)
(* when the generation was invalidated for it; doneCall / doneBump: the    *)
(* same for the calls of stop() that have returned.  A behaviour records   *)
(* the part named by track: "order" (osIds, lastOs, prevMax), "stop" (the  *)
(* four stop sets and osIds) or "gate" (enq, dropped, accepted, osIds).    *)
(***************************************************************************)
\* pasted: the texts whose Cmd+V has been posted; early: the texts that
\* inject_text put on the queue before the session stop ended its
\* quiet-period wait;
\* closedOs: an OS effect happened while the gate was closed; closedBegin: a
\* paste passed the check of _paste_text while the gate was closed (track
\* "session", which also records enq and flushed)
\* idle: wait_idle() has returned True with no inject_text call in progress
\* and inject_text has not been called since; trueWhenBusy: wait_idle()
\* returned True at a moment when the worker was alive with the queue not
\* empty, or an injection was in progress; osAfterIdle: an OS effect happened
\* while idle (track "idle")
\* staleOs: an OS effect happened for an item whose generation was not the
\* injector's at that moment; staleBegin: such an item passed the check of
\* _paste_text; staleDropped: such an item was dropped at a check of the
\* worker or of _paste_text (track "gen")
\* flushed: flush_and_clear() has returned and enable() has not been called
\* since; osAfterFlush: an OS effect happened while flushed (track "flush")
Tracked(parts, new, old) == IF track \in parts THEN new ELSE old

IHistInit ==
  [nTexts |-> 0, nOps |-> 0, enq |-> {}, dropped |-> {}, accepted |-> {},
   osIds |-> {}, lastOs |-> 0, prevMax |-> 0,
   stopCall |-> {}, stopBump |-> {}, doneCall |-> {}, doneBump |-> {},
   flushed |-> FALSE, osAfterFlush |-> FALSE,
   idle |-> FALSE, trueWhenBusy |-> FALSE, osAfterIdle |-> FALSE,
   pasted |-> {}, early |-> {}, closedOs |-> FALSE, closedBegin |-> FALSE,
   staleOs |-> FALSE, staleBegin |-> FALSE, staleDropped |-> FALSE,
   followed |-> {}]

QueueIds(q) == {q[n].id : n \in 1..Len(q)}

\* the largest text of S, 0 when there is none
MaxOf(S) == IF S = {} THEN 0 ELSE CHOOSE x \in S : \A y \in S : y <= x

PIdle ==
  [pc |-> "idle", id |-> None, gen |-> None, closed |-> FALSE, open |-> FALSE]

CIdle ==
  [pc |-> "idle", inval |-> FALSE, late |-> FALSE, ret |-> FALSE,
   worker_idle |-> FALSE, queue_empty |-> FALSE]

SetInj(s) ==
  /\ stop_typing' = s.stop_typing
  /\ worker_stop' = s.worker_stop
  /\ generation' = s.generation
  /\ accept_new_work' = s.accept_new_work
  /\ text_queue' = s.text_queue
  /\ worker_thread' = s.worker_thread
  /\ injecting' = s.injecting
  /\ workers' = s.workers

\* the positions of stop_transcription up to the end of its quiet-period
\* wait ("rec": not called yet)
BeforeFinalize == {"rec", "T0", "T2", "T3", "T4", "T5"}

\* the producer runs one statement of inject_text (call: the first one)
ProducerDo(p, call) ==
  LET r == IF p.pc \in {"SW0", "SW1"} THEN start_worker(p, InjState)
           ELSE inject_text(p, InjState)
      done == r.th.pc = "end"
  IN  /\ SetInj(r.inj)
      /\ producer' = IF done THEN PIdle ELSE r.th
      /\ ihist' = [ihist EXCEPT
                     !.nTexts = @ + Bit(call),
                     !.idle = @ /\ ~call,
                     !.early = IF /\ r.inj.text_queue # text_queue
                                  /\ session.pc \in BeforeFinalize
                               THEN Tracked({"session"}, @ \cup {p.id}, @)
                               ELSE @,
                     !.enq = IF r.inj.text_queue # text_queue
                             THEN Tracked({"gate", "session", "gen", "deliver"},
                                          @ \cup {p.id}, @)
                             ELSE @,
                     !.dropped = IF done /\ p.closed THEN @ \cup {p.id} ELSE @,
                     !.accepted = IF done /\ p.open THEN @ \cup {p.id} ELSE @]
      /\ UNCHANGED controller

InjectCall ==
  /\ producer.pc = "idle"
  /\ ihist.nTexts < MaxTexts
  /\ ProducerDo([pc |-> "I0", id |-> ihist.nTexts + 1, gen |-> None,
                 closed |-> Tracked({"gate"}, ~accept_new_work, FALSE),
                 open |-> Tracked({"gate"}, accept_new_work, FALSE)], TRUE)
  /\ UNCHANGED <<keyVars, track, ptVars, restVars>>

ProducerStep ==
  /\ producer.pc # "idle"
  /\ ProducerDo(producer, FALSE)
  /\ UNCHANGED <<keyVars, track, ptVars, restVars>>

\* the controller runs one statement of stop, disable, enable or
\* flush_and_clear (call: the first one)
\* the statements of stop(), disable() and flush_and_clear() up to the end
\* of the loop that empties the queue
BeforeJoin == {"D0", "ST0", "ST1", "ST2", "ST3", "F0", "F1", "F2", "F3"}

ControllerDo(c, call) ==
  LET r == CASE c.pc = "D0" -> disable(c, InjState)
             [] c.pc = "E0" -> enable(c, InjState)
             [] c.pc \in {"F0", "F1", "F2", "F3", "F4", "F5"} ->
                  flush_and_clear(c, InjState)
             [] c.pc \in {"WI0", "WI1", "WI2", "WI3"} ->
                  wait_idle(c, InjState)
             [] OTHER -> stop(c, InjState)
      done == r.th.pc = "end"
      idleNow == (~is_alive(InjState) \/ text_queue = <<>>) /\ ~injecting
      gate == r.inj.accept_new_work
      inQ == QueueIds(text_queue)
      bumped == c.pc \in {"D0", "ST2"} /\ r.inj.generation # generation
      returns == c.pc = "ST5"
  IN  /\ SetInj(r.inj)
      /\ controller' = IF done THEN CIdle ELSE r.th
      /\ producer' = IF producer.pc = "idle" THEN producer
                     ELSE [producer EXCEPT !.closed = @ /\ ~gate,
                                           !.open = @ /\ gate]
      /\ ihist' = [ihist EXCEPT
                     !.nOps = @ + Bit(call),
                     !.followed =
                       IF c.pc \in BeforeJoin
                       THEN Tracked({"deliver"},
                                    @ \cup ihist.enq
                                      \cup (IF producer.pc = "idle" THEN {}
                                            ELSE {producer.id}), @)
                       ELSE @,
                     !.stopCall = IF c.pc = "ST0"
                                  THEN Tracked({"stop"}, inQ, @)
                                  ELSE IF returns THEN {} ELSE @,
                     !.stopBump = IF bumped THEN Tracked({"stop"}, inQ, @)
                                  ELSE IF returns THEN {} ELSE @,
                     !.doneCall = IF returns THEN @ \cup ihist.stopCall ELSE @,
                     !.doneBump = IF returns THEN @ \cup ihist.stopBump ELSE @,
                     !.flushed = IF c.pc = "F5"
                                 THEN Tracked({"flush", "session"}, TRUE, @)
                                 ELSE IF c.pc = "E0" THEN FALSE ELSE @,
                     !.idle = IF c.pc = "WI3" /\ r.th.ret
                              THEN Tracked({"idle"}, producer.pc = "idle", @)
                              ELSE @,
                     !.trueWhenBusy = IF c.pc = "WI3" /\ r.th.ret
                                      THEN Tracked({"idle"}, @ \/ ~idleNow, @)
                                      ELSE @]

FirstPc(op) ==
  CASE op = "stop" -> "ST0" [] op = "disable" -> "D0"
    [] op = "enable" -> "E0" [] op = "flush_and_clear" -> "F0"
    [] op = "wait_idle" -> "WI0"

\* wait_idle is called only in the behaviours that record its history
ControllerCall(op) ==
  /\ controller.pc = "idle"
  /\ op = "wait_idle" => track = "idle"
  /\ ihist.nOps < MaxOps
  /\ ControllerDo([CIdle EXCEPT !.pc = FirstPc(op), !.inval = TRUE], TRUE)
  /\ UNCHANGED <<keyVars, track, ptVars, restVars>>

ControllerStep ==
  /\ controller.pc # "idle"
  /\ controller.pc \in {"ST4", "F4"}
       => \E timeout \in BOOLEAN : join_returns(InjState, timeout)
  /\ \E late \in BOOLEAN :
       /\ late => controller.pc = "WI0"
       /\ ControllerDo([controller EXCEPT !.late = late], FALSE)
  /\ UNCHANGED <<keyVars, track, ptVars, restVars>>

\* worker i runs one statement
WorkerStep(i) ==
  /\ workers[i].pc \notin {"unborn", "dead"}
  /\ LET w == workers[i]
         r == IF w.pc \in {"PT0", "PT1", "PT2", "PT3", "PT4"}
              THEN paste_text(w, InjState) ELSE worker(w, InjState)
         e == os_effect(w)
     IN  /\ SetInj([r.inj EXCEPT !.workers[i] = r.th])
         /\ ihist' = IF e = None
                     THEN [ihist EXCEPT
                            !.closedBegin =
                              @ \/ Tracked({"session"},
                                           /\ w.pc = "PT0" /\ r.th.pc = "PT1"
                                           /\ ~accept_new_work, FALSE),
                            !.staleBegin =
                              @ \/ Tracked({"gen"},
                                           /\ w.pc = "PT0" /\ r.th.pc = "PT1"
                                           /\ w.item.gen # generation, FALSE),
                            !.staleDropped =
                              @ \/ Tracked({"gen"},
                                           /\ w.pc \in {"W4", "PT0"}
                                           /\ r.th.pc = "W1"
                                           /\ w.item.gen # generation, FALSE)]
                     ELSE [ihist EXCEPT
                            !.pasted = IF w.pc = "PT3"
                                       THEN Tracked({"session", "deliver"},
                                                    @ \cup {e}, @)
                                       ELSE @,
                            !.closedOs =
                              @ \/ Tracked({"session"}, ~accept_new_work, FALSE),
                            !.staleOs =
                              @ \/ Tracked({"gen"},
                                           /\ w.pc \in {"PT1", "PT2", "PT3"}
                                           /\ w.item.gen # generation, FALSE),
                            !.osIds = @ \cup {e},
                            !.lastOs = Tracked({"order"}, e, @),
                            !.prevMax = Tracked({"order"}, MaxOf(ihist.osIds), @),
                            !.osAfterFlush = @ \/ ihist.flushed,
                            !.osAfterIdle = @ \/ ihist.idle]
  /\ UNCHANGED <<producer, controller, keyVars, track, ptVars, restVars>>

InitInjector ==
  /\ stop_typing = FALSE
  /\ worker_stop = FALSE
  /\ generation = 0
  /\ accept_new_work = TRUE
  /\ text_queue = <<>>
  /\ worker_thread = None
  /\ injecting = FALSE
  /\ workers = [i \in TextIds |-> [pc |-> "unborn", item |-> NoItem]]
  /\ producer = PIdle
  /\ controller = CIdle
  /\ ihist = IHistInit

Ops == {"stop", "disable", "enable", "flush_and_clear", "wait_idle"}

NextInj ==
  \/ InjectCall
  \/ ProducerStep
  \/ \E op \in Ops : ControllerCall(op)
  \/ ControllerStep
  \/ \E i \in TextIds : WorkerStep(i)

(***************************************************************************)
(* PTTTranscriber: one session.  The websocket thread runs _on_ws_message  *)
(* for the Turn messages that arrive while the transport is open and hands *)
(* their deltas to inject_text; the audio thread streams until stop_event  *)
(* is set; another thread calls stop_transcription(suppress_output).  The  *)
(* session's fields: pc (the position in stop_transcription, "rec" before  *)
(* the call and "done" after the return), suppress (the argument),         *)
(* suppress_output, stop_event, audio_thread and ws_thread (alive or not), *)
(* audio_cleaned_up, ws (the transport), terminate_sent, state, dirty (the *)
(* per-session counters and session_text are not all zero / empty), cb     *)
(* (the text the websocket callback in progress handed to inject_text) and *)
(* ws_joined, ret and errored (history: whether the websocket thread had   *)
(* exited when the join returned, what stop_transcription left at its      *)
(* return, and whether the transport has reported an error: "no", or      *)
(* "rec" / "stop" for an error before / after stop_transcription was       *)
(* called).                                                                *)
(***************************************************************************)
\* what stop_transcription left when it returned: the state, whether the
\* counters and session_text were as reset, and whether the websocket
\* thread had exited when the join on it returned
NoReturn == [state |-> "none", clean |-> TRUE, ws_joined |-> FALSE]

Returned(t) ==
  [state |-> "idle", clean |-> ~t.dirty, ws_joined |-> t.ws_joined]

SessionInit ==
  [pc |-> "rec", suppress |-> FALSE, suppress_output |-> FALSE,
   stop_event |-> FALSE, audio_thread |-> TRUE, ws_thread |-> TRUE,
   audio_cleaned_up |-> FALSE, ws |-> "open", terminate_sent |-> FALSE,
   state |-> "transcribing", dirty |-> FALSE, cb |-> None,
   ws_joined |-> FALSE, ret |-> NoReturn, errored |-> "no"]

\* stop_transcription that never calls flush_and_clear()
PTTTranscriber_stop_transcription_withoutFlush(t, raises) ==
  CASE t.pc = "T0" ->
         [t EXCEPT !.suppress_output = t.suppress, !.pc = "T2"]
    [] t.pc = "T2" -> [t EXCEPT !.stop_event = TRUE, !.pc = "T3"]
    [] t.pc = "T3" -> [t EXCEPT !.pc = "T4"]
    [] t.pc = "T4" ->
         [t EXCEPT !.audio_cleaned_up = TRUE,
                   !.pc = IF t.suppress THEN "T6" ELSE "T5"]
    [] t.pc = "T5" -> [t EXCEPT !.pc = "T6"]
    [] t.pc = "T6" -> [t EXCEPT !.terminate_sent = ~raises, !.pc = "T7"]
    [] t.pc = "T7" ->
         [t EXCEPT !.ws = IF raises THEN @ ELSE "closed", !.pc = "T8"]
    [] t.pc = "T8" -> [t EXCEPT !.ws_joined = ~t.ws_thread, !.pc = "T9"]
    [] t.pc = "T10" ->
         [t EXCEPT !.dirty = FALSE, !.stop_event = FALSE,
                   !.audio_cleaned_up = FALSE, !.pc = "T11"]
    [] t.pc = "T11" ->
         [t EXCEPT !.state = "idle", !.pc = "done", !.ret = Returned(t)]

\* stop_transcription whose send of Terminate is not inside a try statement
PTTTranscriber_stop_transcription_uncaught(t, raises) ==
  CASE t.pc = "T0" ->
         [t EXCEPT !.suppress_output = t.suppress,
                   !.pc = IF t.suppress THEN "T1" ELSE "T2"]
    [] t.pc = "T2" -> [t EXCEPT !.stop_event = TRUE, !.pc = "T3"]
    [] t.pc = "T3" -> [t EXCEPT !.pc = "T4"]
    [] t.pc = "T4" ->
         [t EXCEPT !.audio_cleaned_up = TRUE,
                   !.pc = IF t.suppress THEN "T6" ELSE "T5"]
    [] t.pc = "T5" -> [t EXCEPT !.pc = "T6"]
    [] t.pc = "T6" ->
         [t EXCEPT !.terminate_sent = ~raises,
                   !.pc = IF raises THEN "raised" ELSE "T7"]
    [] t.pc = "T7" ->
         [t EXCEPT !.ws = IF raises THEN @ ELSE "closed", !.pc = "T8"]
    [] t.pc = "T8" -> [t EXCEPT !.ws_joined = ~t.ws_thread, !.pc = "T9"]
    [] t.pc = "T10" ->
         [t EXCEPT !.dirty = FALSE, !.stop_event = FALSE,
                   !.audio_cleaned_up = FALSE, !.pc = "T11"]
    [] t.pc = "T11" ->
         [t EXCEPT !.state = "idle", !.pc = "done", !.ret = Returned(t)]

\* the statements of PTTTranscriber.stop_transcription other than its calls
\* of the injector; raises: the transport call of this statement raises
PTTTranscriber_stop_transcription(t, raises) ==
  CASE t.pc = "T0" ->   \* self._suppress_output = bool(suppress_output)
         [t EXCEPT !.suppress_output = t.suppress,
                   !.pc = IF t.suppress THEN "T1" ELSE "T2"]
    [] t.pc = "T2" ->   \* self.stop_event.set()
         [t EXCEPT !.stop_event = TRUE, !.pc = "T3"]
    [] t.pc = "T3" ->   \* audio_thread.join(timeout=1.0)
         [t EXCEPT !.pc = "T4"]
    [] t.pc = "T4" ->   \* self._cleanup_audio()
         [t EXCEPT !.audio_cleaned_up = TRUE,
                   !.pc = IF t.suppress THEN "T6" ELSE "T5"]
    [] t.pc = "T5" ->   \* the quiet-period wait, at most max_wait_ms
         [t EXCEPT !.pc = "T6"]
    [] t.pc = "T6" ->   \* ws_app.send(Terminate); sleep(0.3)
         [t EXCEPT !.terminate_sent = ~raises, !.pc = "T7"]
    [] t.pc = "T7" ->   \* ws_ready.clear(); ws_app.close()
         [t EXCEPT !.ws = IF raises THEN @ ELSE "closed", !.pc = "T8"]
    [] t.pc = "T8" ->   \* ws_thread.join(timeout=1.0)
         [t EXCEPT !.ws_joined = ~t.ws_thread, !.pc = "T9"]
    [] t.pc = "T10" ->  \* counters and session_text reset; stop_event.clear()
         [t EXCEPT !.dirty = FALSE, !.stop_event = FALSE,
                   !.audio_cleaned_up = FALSE, !.pc = "T11"]
    [] t.pc = "T11" ->  \* self.state = TranscriptionState.IDLE; return
         [t EXCEPT !.state = "idle", !.pc = "done", !.ret = Returned(t)]

\* stop_transcription is called
StopTranscriptionCall ==
  /\ session.pc = "rec"
  /\ \E suppress \in BOOLEAN :
       session' = [session EXCEPT !.pc = "T0", !.suppress = suppress]
  /\ UNCHANGED <<keyVars, injVars, restVars>>

\* the stopping thread runs one statement of stop_transcription; a join
\* returns once the thread is dead or the timeout has elapsed
StopTranscriptionStep ==
  /\ session.pc \in {"T0", "T2", "T3", "T4", "T5", "T6", "T7", "T8", "T10",
                     "T11"}
  /\ \E x \in BOOLEAN :
       /\ session.pc = "T3" => (~session.audio_thread \/ x)
       /\ session.pc = "T8" => (~session.ws_thread \/ x)
       /\ x => session.pc \in {"T3", "T6", "T7", "T8"}
       /\ session' = PTTTranscriber_stop_transcription(session, x)
  /\ UNCHANGED <<keyVars, injVars, restVars>>

\* stop_transcription calls self.injector.flush_and_clear() (suppress) or
\* self.injector.stop() (at the end)
StopTranscriptionInject ==
  /\ session.pc \in {"T1", "T9"}
  /\ controller.pc = "idle"
  /\ ControllerDo([CIdle EXCEPT
                     !.pc = IF session.pc = "T1" THEN "F0" ELSE "ST0",
                     !.inval = TRUE], TRUE)
  /\ session' = [session EXCEPT !.pc = IF @ = "T1" THEN "T1r" ELSE "T9r"]
  /\ UNCHANGED <<keyVars, track, restVars>>

\* the injector call has returned
StopTranscriptionResume ==
  /\ session.pc \in {"T1r", "T9r"}
  /\ controller.pc = "idle"
  /\ session' = [session EXCEPT !.pc = IF @ = "T1r" THEN "T2" ELSE "T10"]
  /\ UNCHANGED <<keyVars, injVars, restVars>>

\* _on_ws_message for a Turn message whose newly final words give a delta:
\* nothing when _suppress_output is set, else inject_text(to_type) is called
WsTurn ==
  /\ session.ws_thread /\ session.ws = "open" /\ session.cb = None
  /\ producer.pc = "idle"
  /\ ihist.nTexts < MaxTexts
  /\ IF session.suppress_output
     THEN /\ ihist' = [ihist EXCEPT !.nTexts = @ + 1]
          /\ UNCHANGED <<injFields, workers, producer, controller, session>>
     ELSE /\ ProducerDo([PIdle EXCEPT !.pc = "I0", !.id = ihist.nTexts + 1],
                        TRUE)
          /\ session' = [session EXCEPT !.cb = ihist.nTexts + 1]
  /\ UNCHANGED <<keyVars, track, restVars>>

\* inject_text has returned: session_text += to_type and the counters
WsTurnDone ==
  /\ session.cb # None
  /\ producer.pc = "idle"
  /\ session' = [session EXCEPT !.cb = None, !.dirty = TRUE]
  /\ UNCHANGED <<keyVars, injVars, restVars>>

\* _on_ws_error that leaves stop_event alone
on_ws_error_silent(t) ==
  [t EXCEPT !.state = "error", !.ws = "failed",
            !.errored = IF t.pc = "rec" THEN "rec" ELSE "stop"]

\* PTTTranscriber._on_ws_error: the transport has failed
on_ws_error(t) ==
  [t EXCEPT !.state = "error", !.stop_event = TRUE, !.ws = "failed",
            !.errored = IF t.pc = "rec" THEN "rec" ELSE "stop"]

\* the transport reports an error to the websocket thread (a connection
\* drop or a failed send), which calls _on_ws_error
WsError ==
  /\ session.ws_thread /\ session.ws = "open" /\ session.cb = None
  /\ session' = on_ws_error(session)
  /\ UNCHANGED <<keyVars, injVars, restVars>>

\* the transport is closed or has failed: _on_ws_close runs and run_forever
\* returns
WsExit ==
  /\ session.ws_thread /\ session.ws \in {"closed", "failed"}
  /\ session.cb = None
  /\ session' = [session EXCEPT !.ws_thread = FALSE, !.state = "idle",
                                !.stop_event = TRUE]
  /\ UNCHANGED <<keyVars, injVars, restVars>>

\* stream_audio leaves its loop once stop_event is set
AudioExit ==
  /\ session.audio_thread /\ session.stop_event
  /\ session' = [session EXCEPT !.audio_thread = FALSE]
  /\ UNCHANGED <<keyVars, injVars, restVars>>

NextSession ==
  \/ StopTranscriptionCall
  \/ StopTranscriptionStep
  \/ StopTranscriptionInject
  \/ StopTranscriptionResume
  \/ WsTurn
  \/ WsTurnDone
  \/ WsExit
  \/ AudioExit
  \/ ProducerStep
  \/ ControllerStep
  \/ \E i \in TextIds : WorkerStep(i)

(***************************************************************************)
(* The main thread.  main() installs _handle_signal for SIGINT, SIGTERM    *)
(* and SIGQUIT and calls app.run(), which loops until an exception leaves  *)
(* it and calls cleanup() in its finally clause.  The interpreter runs a   *)
(* Python signal handler in the main thread between two bytecodes of       *)
(* whatever the main thread is executing, a handler included; the handler  *)
(* never returns: it leaves by sys.exit, and the SystemExit it raises      *)
(* unwinds the frames it interrupted.  main.stack is the main thread's     *)
(* call stack, innermost frame last; a frame is [fn, pc, sig, pend]: the   *)
(* function, the statement it is at or in, the handler's signal number,    *)
(* and the exit status that run()'s finally clause will re-raise.          *)
(* main.status is the process's exit status once the stack has unwound.    *)
(* History: main.log holds the shutdown steps in the order in which each   *)
(* was first performed, main.bodies counts the executions of cleanup()'s   *)
(* body, main.sigs holds the signal numbers delivered and main.nSignals     *)
(* counts the deliveries.                                                  *)
(***************************************************************************)
Signals == {2, 3, 15}

Frame(fn, pc, sig) == [fn |-> fn, pc |-> pc, sig |-> sig, pend |-> None]

MainInit ==
  [stack |-> <<Frame("run", "R0", None)>>, status |-> None,
   cleanup_started |-> FALSE, log |-> <<>>, bodies |-> 0, sigs |-> {},
   nSignals |-> 0]

Top(m) == m.stack[Len(m.stack)]

Below(m) == SubSeq(m.stack, 1, Len(m.stack) - 1)

At(m, pc) == [m EXCEPT !.stack[Len(m.stack)].pc = pc]

Logged(m, step) ==
  IF \E i \in 1..Len(m.log) : m.log[i] = step THEN m
  ELSE [m EXCEPT !.log = Append(@, step)]

\* the fields of PushToTalkApp that the main thread reads and writes
MainApp ==
  [shutting_down |-> shutting_down, is_transcribing |-> is_transcribing,
   transcriber |-> transcriber, running |-> running, stops |-> hist.stops]

MGoto(m, a, pc) == [m |-> At(m, pc), a |-> a]

\* SystemExit(code) propagates from the frame above stack: it enters the
\* finally clause of the first frame that is inside a try statement with
\* one (_handle_signal around cleanup() and the sleep, run() around its
\* loop) and ends the process when no frame is left
RECURSIVE Unwind(_, _)
Unwind(stack, code) ==
  IF stack = <<>> THEN [stack |-> <<>>, status |-> code]
  ELSE LET f == stack[Len(stack)]
           rest == SubSeq(stack, 1, Len(stack) - 1)
       IN  IF f.fn = "handler" /\ f.pc \in {"H3", "H4"}
           THEN [stack |-> Append(rest, [f EXCEPT !.pc = "H5"]),
                 status |-> None]
           ELSE IF f.fn = "run" /\ f.pc = "R0"
           THEN [stack |-> Append(rest, [f EXCEPT !.pc = "R1", !.pend = code]),
                 status |-> None]
           ELSE Unwind(rest, code)

Raise(m, a, stack, code) ==
  LET u == Unwind(stack, code)
  IN  [m |-> [m EXCEPT !.stack = u.stack, !.status = u.status], a |-> a]

\* the callee returns: the caller goes on after its call statement
Return(m, a) ==
  LET caller == m.stack[Len(m.stack) - 1]
      next == IF caller.fn = "handler" THEN "H4" ELSE "R2"
  IN  [m |-> [m EXCEPT !.stack = Append(SubSeq(m.stack, 1, Len(m.stack) - 2),
                                        [caller EXCEPT !.pc = next])],
       a |-> a]

\* main._handle_signal
handle_signal(m, a) ==
  LET f == Top(m)
  IN  CASE f.pc = "H0" ->   \* app.shutting_down.set()
             MGoto(Logged(m, "flag"), [a EXCEPT !.shutting_down = TRUE], "H1")
        [] f.pc = "H1" ->   \* if app.transcriber: injector.flush_and_clear()
             MGoto(IF a.transcriber # None THEN Logged(m, "flush") ELSE m,
                   a, "H2")
        [] f.pc = "H2" ->   \*     app.transcriber.quiesce_output()
             MGoto(m, a, "H3")
        [] f.pc = "H3" ->   \* try: app.cleanup()
             [m |-> [m EXCEPT !.stack = Append(@, Frame("cleanup", "C0", None))],
              a |-> a]
        [] f.pc = "H4" ->   \*      time.sleep(0.25)
             MGoto(m, a, "H5")
        [] f.pc = "H5" ->   \* finally: sys.exit(128 + signum)
             Raise(Logged(m, "exit"), a, Below(m), 128 + f.sig)

\* cleanup() that does not test cleanup_started
PushToTalkApp_cleanup_withoutGuard(m, a) ==
  LET f == Top(m)
  IN  CASE f.pc = "C0" -> MGoto(m, a, "C1")
        [] f.pc = "C1" ->
             MGoto([m EXCEPT !.cleanup_started = TRUE, !.bodies = @ + 1], a,
                   "C2")
        [] f.pc = "C2" ->
             MGoto(Logged(m, "flag"), [a EXCEPT !.shutting_down = TRUE], "C3")
        [] f.pc = "C3" ->
             MGoto(IF a.transcriber # None THEN Logged(m, "flush") ELSE m,
                   a, "C4")
        [] f.pc = "C4" -> MGoto(m, a, "C5")
        [] f.pc = "C5" ->
             IF a.is_transcribing /\ a.transcriber # None
             THEN MGoto(Logged(m, "stop"),
                        [a EXCEPT !.running = @ \ {a.transcriber},
                                  !.stops = @ + 1, !.transcriber = None,
                                  !.is_transcribing = FALSE], "C6")
             ELSE MGoto(m, a, "C6")
        [] f.pc = "C6" -> MGoto(Logged(m, "watchdog"), a, "C7")
        [] f.pc = "C7" -> MGoto(Logged(m, "quartz"), a, "C8")
        [] f.pc = "C8" -> MGoto(Logged(m, "kbm"), a, "C9")
        [] f.pc = "C9" ->
             MGoto(m, IF a.transcriber # None
                      THEN [a EXCEPT !.running = @ \ {a.transcriber}]
                      ELSE a, "C10")
        [] f.pc = "C10" -> Return(m, a)

\* PushToTalkApp.cleanup
PushToTalkApp_cleanup(m, a) ==
  LET f == Top(m)
  IN  CASE f.pc = "C0" ->   \* if self.cleanup_started.is_set(): return
             IF m.cleanup_started THEN Return(m, a) ELSE MGoto(m, a, "C1")
        [] f.pc = "C1" ->   \* self.cleanup_started.set()
             MGoto([m EXCEPT !.cleanup_started = TRUE, !.bodies = @ + 1], a,
                   "C2")
        [] f.pc = "C2" ->   \* self.shutting_down.set()
             MGoto(Logged(m, "flag"), [a EXCEPT !.shutting_down = TRUE], "C3")
        [] f.pc = "C3" ->   \* if self.transcriber: injector.flush_and_clear()
             MGoto(IF a.transcriber # None THEN Logged(m, "flush") ELSE m,
                   a, "C4")
        [] f.pc = "C4" ->   \* if self.transcriber: quiesce_output()
             MGoto(m, a, "C5")
        [] f.pc = "C5" ->   \* if self.is_transcribing:
                            \*     self._stop_transcription(suppress_output=True)
             IF a.is_transcribing /\ a.transcriber # None
             THEN MGoto(Logged(m, "stop"),
                        [a EXCEPT !.running = @ \ {a.transcriber},
                                  !.stops = @ + 1, !.transcriber = None,
                                  !.is_transcribing = FALSE], "C6")
             ELSE MGoto(m, a, "C6")
        [] f.pc = "C6" ->   \* listener_watchdog_stop.set(); join(timeout=1.0)
             MGoto(Logged(m, "watchdog"), a, "C7")
        [] f.pc = "C7" ->   \* self.quartz_listener.stop()
             MGoto(Logged(m, "quartz"), a, "C8")
        [] f.pc = "C8" ->   \* self.kbm.stop()
             MGoto(Logged(m, "kbm"), a, "C9")
        [] f.pc = "C9" ->   \* if self.transcriber: self.transcriber.cleanup()
                            \* (its injector stopped, its audio closed)
             MGoto(m, IF a.transcriber # None
                      THEN [a EXCEPT !.running = @ \ {a.transcriber}]
                      ELSE a, "C10")
        [] f.pc = "C10" ->  \* self.indicator.cleanup(); return
             Return(m, a)

\* PushToTalkApp.run from the moment an exception leaves its loop
PushToTalkApp_run(m, a) ==
  LET f == Top(m)
  IN  CASE f.pc = "R1" ->   \* finally: self.cleanup()
             [m |-> [m EXCEPT !.stack = Append(@, Frame("cleanup", "C0", None))],
              a |-> a]
        [] f.pc = "R2" ->   \* the pending SystemExit leaves run() and main()
             Raise(m, a, Below(m), f.pend)

SetMain(r) ==
  /\ main' = r.m
  /\ shutting_down' = r.a.shutting_down
  /\ is_transcribing' = r.a.is_transcribing
  /\ transcriber' = r.a.transcriber
  /\ running' = r.a.running
  /\ hist' = [hist EXCEPT !.stops = r.a.stops]
  /\ UNCHANGED <<envVars, kbmVars, kthreads, quartzVars, qthread, ptt_active,
                 nSessions, injVars, ptVars, reducer, extVars>>

\* a signal is delivered: the interpreter calls _handle_signal on top of
\* whatever the main thread is executing
Signal(s) ==
  /\ main.stack # <<>>
  /\ main.nSignals < MaxSignals
  /\ main' = [main EXCEPT !.stack = Append(@, Frame("handler", "H0", s)),
                          !.sigs = @ \cup {s}, !.nSignals = @ + 1]
  /\ UNCHANGED <<keyVars, injVars, ptVars, reducer, extVars>>

\* the main thread executes one statement of its innermost frame (the loop
\* of run() changes nothing)
HandlerStep ==
  /\ main.stack # <<>> /\ Top(main).fn = "handler"
  /\ SetMain(handle_signal(main, MainApp))

CleanupStep ==
  /\ main.stack # <<>> /\ Top(main).fn = "cleanup"
  /\ SetMain(PushToTalkApp_cleanup(main, MainApp))

RunStep ==
  /\ main.stack # <<>> /\ Top(main).fn = "run" /\ Top(main).pc # "R0"
  /\ SetMain(PushToTalkApp_run(main, MainApp))

NextShutdown ==
  \/ \E s \in Signals : Signal(s)
  \/ HandlerStep
  \/ CleanupStep
  \/ RunStep

(***************************************************************************)
(* The reducer of Turn messages: PTTTranscriber._on_ws_message with its    *)
(* helpers _clean_word_token and _apply_phrase_replacements.  A string is  *)
(* a sequence of one-character strings, so that cleaning, joining and the  *)
(* endswith tests work on characters as the code's do.  The websocket      *)
(* thread handles one message at a time, so a message is one step.         *)
(***************************************************************************)
\* the characters unicodedata puts in a category P*, and str.lower()
Punct == {"/", ",", "."}

Lower(ch) ==
  CASE ch = "O" -> "o" [] ch = "S" -> "s" [] ch = "E" -> "e" [] ch = "C" -> "c"
    [] OTHER -> ch

LowerStr(s) == [i \in 1..Len(s) |-> Lower(s[i])]

RECURSIVE LStrip(_)
LStrip(s) == IF s # <<>> /\ Head(s) = " " THEN LStrip(Tail(s)) ELSE s

RECURSIVE RStrip(_)
RStrip(s) ==
  IF s # <<>> /\ s[Len(s)] = " " THEN RStrip(SubSeq(s, 1, Len(s) - 1)) ELSE s

\* str.strip()
Strip(s) == RStrip(LStrip(s))

\* str.endswith(t)
EndsWith(s, t) ==
  Len(t) <= Len(s) /\ SubSeq(s, Len(s) - Len(t) + 1, Len(s)) = t

\* "".join(parts)
RECURSIVE Concat(_)
Concat(parts) ==
  IF parts = <<>> THEN <<>> ELSE Head(parts) \o Concat(Tail(parts))

\* the texts of the words the recogniser sends
forward == <<"f", "o", "r", "w", "a", "r", "d">>
slash == <<"s", "l", "a", "s", "h">>
open == <<"o", "p", "e", "n">>
close == <<"c", "l", "o", "s", "e">>
Open_comma == <<"O", "p", "e", "n", ",">>
Slash == <<"S", "l", "a", "s", "h">>
solidus == <<"/">>

\* what a session's turns can say
Sentences ==
  {<<forward, slash>>, <<open, solidus, close>>, <<Open_comma, Slash, close>>,
   <<open, open, open>>}

\* the replacement tables a PTTTranscriber can be constructed with: word
\* map, phrase map and joiner set
Tables ==
  {[word_replacements |-> (slash :> solidus),
    phrase_replacements |-> (<<forward, slash>> :> solidus),
    joiner_values |-> {solidus}],
   [word_replacements |-> <<>>,
    phrase_replacements |-> (<<forward, slash>> :> solidus),
    joiner_values |-> {solidus}],
   [word_replacements |-> (slash :> solidus),
    phrase_replacements |-> <<>>,
    joiner_values |-> {}]}

\* PTTTranscriber._clean_word_token
clean_word_token(tb, token) ==
  IF token = <<>> THEN <<>>
  ELSE LET t == LowerStr(Strip(token))
       IN  IF t \in DOMAIN tb.word_replacements THEN t
           ELSE LowerStr(Strip(SelectSeq(token, LAMBDA ch : ch \notin Punct)))

\* PTTTranscriber._apply_phrase_replacements from token i on
RECURSIVE PhraseScan(_, _, _)
PhraseScan(tb, tokens, i) ==
  IF i > Len(tokens) THEN <<>>
  ELSE LET fits == {pat \in DOMAIN tb.phrase_replacements :
                      /\ Len(pat) > 0
                      /\ i + Len(pat) - 1 <= Len(tokens)
                      /\ SubSeq(tokens, i, i + Len(pat) - 1) = pat}
       IN  IF fits = {} THEN <<tokens[i]>> \o PhraseScan(tb, tokens, i + 1)
           ELSE LET pat == CHOOSE p \in fits : \A q \in fits : Len(q) <= Len(p)
                IN  <<tb.phrase_replacements[pat]>>
                      \o PhraseScan(tb, tokens, i + Len(pat))

apply_phrase_replacements(tb, tokens) ==
  IF DOMAIN tb.phrase_replacements = {} THEN tokens
  ELSE PhraseScan(tb, tokens, 1)

\* the token of one final word: the body of the loop over the words
word_token(tb, text) ==
  LET raw == Strip(text)
      cleaned == clean_word_token(tb, raw)
      token == IF cleaned \in DOMAIN tb.word_replacements
               THEN tb.word_replacements[cleaned] ELSE cleaned
  IN  IF cleaned # <<>>
      THEN (IF token # <<>> THEN <<token>> ELSE <<>>)
      ELSE (IF raw # <<>> /\ raw \in tb.joiner_values THEN <<raw>> ELSE <<>>)

\* a scan that takes every word for final
FinalRun_toTheEnd(words, committed) ==
  IF committed < Len(words) THEN Len(words) - committed ELSE 0

\* the number of final words from index committed on: the loop ends at the
\* first word that is not final
RECURSIVE FinalRun(_, _)
FinalRun(words, committed) ==
  IF committed < Len(words) /\ words[committed + 1].word_is_final
  THEN 1 + FinalRun(words, committed + 1)
  ELSE 0

\* a separator that is always a space
separator_always(tb, prev_tok, tok) == <<" ">>

\* what is put between two adjacent tokens of a delta
separator(tb, prev_tok, tok) ==
  IF prev_tok \notin tb.joiner_values /\ tok \notin tb.joiner_values
  THEN <<" ">> ELSE <<>>

\* what is put before the first token of a delta
leading(tb, tok, session_text) ==
  IF /\ tok \notin tb.joiner_values
     /\ session_text # <<>>
     /\ ~EndsWith(session_text, <<" ">>)
     /\ ~\E j \in tb.joiner_values : EndsWith(session_text, j)
  THEN <<" ">> ELSE <<>>

\* to_type: the tokens from i on with what precedes each
RECURSIVE JoinTokens(_, _, _, _)
JoinTokens(tb, tokens, i, session_text) ==
  IF i > Len(tokens) THEN <<>>
  ELSE (IF i = 1 THEN leading(tb, tokens[1], session_text)
        ELSE separator(tb, tokens[i - 1], tokens[i]))
         \o tokens[i] \o JoinTokens(tb, tokens, i + 1, session_text)

\* a duplicate test that never finds a duplicate
is_duplicate_never(r, to_type) == FALSE

\* the test that skips a duplicate chunk
is_duplicate(r, to_type) ==
  \/ to_type = r.last_output_chunk
  \/ to_type # <<>> /\ EndsWith(r.session_text, to_type)

\* nothing has been handled yet (history)
NoTurn ==
  [computed |-> FALSE, delta |-> <<>>, raw |-> <<>>, tokens |-> <<>>,
   injected |-> <<>>, before |-> <<>>, chunk |-> <<>>, known |-> FALSE,
   closing |-> FALSE]

\* no message has been scanned yet (history)
NoScan ==
  [ev |-> [turn_order |-> None, end_of_turn |-> FALSE,
           turn_is_formatted |-> FALSE, words |-> <<>>],
   start |-> 0, used |-> {}, count_before |-> 0, turn_before |-> None,
   last_emitted_before |-> <<>>, turn_count_before |-> 0]

\* a PTTTranscriber constructed with the tables tb, for a session whose
\* turns say script.  History: last and prev describe the last two Turn
\* messages handled (the delta computed, the raw words and the tokens it was
\* built from, the strings handed to inject_text, session_text and
\* last_output_chunk before, whether the delta equalled the last emitted
\* delta or ended session_text, whether the message closed the turn);
\* last_emitted is the last delta handed to inject_text; emitted holds the
\* (turn, index) of the words that contributed to an emitted delta; again
\* and disorder tell whether a word contributed twice, and whether a word
\* was emitted after a word of the same turn with a higher index; scan
\* holds the last Turn message, the index its scan started at, the words
\* that contributed to the delta handed to the injector, and the counters
\* and the last emitted delta as they were before the message
ReducerStart(tb, script) ==
  [table |-> tb, script |-> script, nEvents |-> 0,
   suppress_output |-> FALSE,
   current_turn_order |-> None, committed_word_count |-> 0,
   turn_count |-> 0,
   session_text |-> <<>>, last_output_chunk |-> <<>>,
   last |-> NoTurn, prev |-> NoTurn, scan |-> NoScan, last_emitted |-> <<>>,
   emitted |-> {}, again |-> FALSE, disorder |-> FALSE]

ReducerInit ==
  ReducerStart(CHOOSE tb \in Tables : tb.joiner_values = {},
               [k \in 1..MaxTurns |-> <<forward, slash>>])

\* a scan that starts at the count whatever the turn
scan_start_kept(r, ev) == r.committed_word_count

\* if turn_order != current_turn_order: committed_word_count = 0; the
\* index the scan of ev starts at
scan_start(r, ev) ==
  IF ev.turn_order # r.current_turn_order THEN 0 ELSE r.committed_word_count

\* a handler that takes the formatted variant like any other message
authoritative_alsoFormatted(r, ev) == ~r.suppress_output

\* not is_formatted and not self._suppress_output: the message may commit
\* words and close the turn
authoritative(r, ev) == ~ev.turn_is_formatted /\ ~r.suppress_output

\* PTTTranscriber._on_ws_message for a Turn message ev
on_ws_message(r, ev) ==
  LET tb == r.table
      committed == scan_start(r, ev)
      process == ev.words # <<>> /\ authoritative(r, ev)
      run == IF process THEN FinalRun(ev.words, committed) ELSE 0
      per_word == [i \in 1..run |-> word_token(tb, ev.words[committed + i].text)]
      new_tokens == Concat(per_word)
      tokens == apply_phrase_replacements(tb, new_tokens)
      computed == new_tokens # <<>>
      to_type == IF computed THEN JoinTokens(tb, tokens, 1, r.session_text)
                 ELSE <<>>
      skipped == computed /\ is_duplicate(r, to_type)
      emit == computed /\ ~skipped
      text1 == IF emit THEN r.session_text \o to_type ELSE r.session_text
      \* if is_final and not is_formatted and not _suppress_output
      closing == ev.end_of_turn /\ authoritative(r, ev)
      space == closing /\ text1 # <<>> /\ ~EndsWith(text1, <<" ">>)
      used == {<<ev.turn_order, committed + i>> :
                 i \in {j \in 1..run : per_word[j] # <<>>}}
  IN  [r EXCEPT
         !.nEvents = @ + 1,
         !.current_turn_order = IF closing THEN None ELSE ev.turn_order,
         !.committed_word_count = IF closing THEN 0 ELSE committed + run,
         !.turn_count = IF closing THEN @ + 1 ELSE @,
         !.scan = [ev |-> ev, start |-> committed,
                   used |-> IF emit THEN used ELSE {},
                   count_before |-> r.committed_word_count,
                   turn_before |-> r.current_turn_order,
                   last_emitted_before |-> r.last_emitted,
                   turn_count_before |-> r.turn_count],
         !.session_text = IF space THEN text1 \o <<" ">> ELSE text1,
         !.last_output_chunk = IF closing THEN <<>>
                               ELSE IF emit THEN to_type ELSE @,
         !.prev = r.last,
         !.last = [computed |-> computed, delta |-> to_type,
                   raw |-> [i \in 1..run |-> ev.words[committed + i].text],
                   tokens |-> IF computed THEN tokens ELSE <<>>,
                   injected |-> (IF emit THEN <<to_type>> ELSE <<>>)
                                  \o (IF space THEN <<<<" ">>>> ELSE <<>>),
                   before |-> r.session_text,
                   known |-> /\ computed
                             /\ \/ to_type = r.last_emitted
                                \/ EndsWith(r.session_text, to_type),
                   chunk |-> r.last_output_chunk,
                   closing |-> closing],
         !.last_emitted = IF emit THEN to_type ELSE @,
         !.emitted = IF emit THEN @ \cup used ELSE @,
         !.again = @ \/ (emit /\ used \cap r.emitted # {}),
         !.disorder = @ \/ (emit /\ \E u \in used : \E e \in r.emitted :
                                      e[1] = u[1] /\ e[2] > u[2])]

\* the Turn message of turn k that shows the first n words of the turn as
\* final, one more word as not yet final (more), and is a partial update,
\* the end-of-turn message or its formatted variant (kind)
TurnMessage(script, k, n, more, kind) ==
  LET shown == IF more THEN n + 1 ELSE n
  IN  [turn_order |-> k,
       end_of_turn |-> kind # "partial",
       turn_is_formatted |-> kind = "formatted",
       words |-> [i \in 1..shown |->
                    [text |-> script[k][i], word_is_final |-> i <= n]]]

\* the websocket thread handles a Turn message: any message of any turn in
\* any order, a retransmitted or a late one included
Turn(k, n, more, kind) ==
  /\ reducer.nEvents < MaxEvents
  /\ n + (IF more THEN 1 ELSE 0) <= Len(reducer.script[k])
  /\ kind # "partial" => (~more /\ n = Len(reducer.script[k]))
  /\ reducer' = on_ws_message(reducer,
                              TurnMessage(reducer.script, k, n, more, kind))
  /\ UNCHANGED <<keyVars, injVars, ptVars, main, extVars>>

\* a Turn message of turn k that shows n words of the turn, each final or
\* not as flags says (a final word may follow one that is not final)
TurnMessageFlags(script, k, n, flags, kind) ==
  [turn_order |-> k,
   end_of_turn |-> kind # "partial",
   turn_is_formatted |-> kind = "formatted",
   words |-> [i \in 1..n |-> [text |-> script[k][i],
                              word_is_final |-> flags[i]]]]

\* the websocket thread handles a Turn message whose words are final in any
\* pattern; the end-of-turn message and its formatted variant show the
\* whole turn as final
TurnFlags(k, n, flags, kind) ==
  /\ reducer.nEvents < MaxEvents
  /\ n <= Len(reducer.script[k])
  /\ \A i \in 1..MaxWords : i > n => ~flags[i]
  /\ kind # "partial" =>
       (n = Len(reducer.script[k]) /\ \A i \in 1..n : flags[i])
  /\ reducer' = on_ws_message(reducer,
                              TurnMessageFlags(reducer.script, k, n, flags, kind))
  /\ UNCHANGED <<keyVars, injVars, ptVars, main, extVars>>

\* quiesce_output (and a suppressing stop) set _suppress_output
Quiesce ==
  /\ ~reducer.suppress_output
  /\ reducer' = [reducer EXCEPT !.suppress_output = TRUE]
  /\ UNCHANGED <<keyVars, injVars, ptVars, main, extVars>>

NextReducer ==
  \/ \E k \in 1..MaxTurns : \E n \in 0..MaxWords : \E more \in BOOLEAN :
       \E kind \in {"partial", "final", "formatted"} : Turn(k, n, more, kind)
  \/ Quiesce

NextTurns ==
  \/ \E k \in 1..MaxTurns : \E n \in 0..MaxWords :
       \E flags \in [1..MaxWords -> BOOLEAN] :
         \E kind \in {"partial", "final", "formatted"} :
           TurnFlags(k, n, flags, kind)
  \/ Quiesce

\* the session with a transport that may fail
NextSessionError ==
  \/ StopTranscriptionCall
  \/ StopTranscriptionStep
  \/ StopTranscriptionInject
  \/ StopTranscriptionResume
  \/ WsTurn
  \/ WsTurnDone
  \/ WsError
  \/ WsExit
  \/ AudioExit
  \/ ProducerStep
  \/ ControllerStep
  \/ \E i \in TextIds : WorkerStep(i)

KThreadStates == [pc : PressPcs \cup ReleasePcs \cup {"F0"}, t : 0..(2 * MaxKeyDowns)]

InitMonitors ==
  /\ phys = {}
  /\ nDown = 0
  /\ qK = <<>>
  /\ qQ = <<>>
  /\ ptt_keybind = LRShift
  /\ pressed_keys = {}
  /\ left_shift_pressed = FALSE
  /\ right_shift_pressed = FALSE
  /\ ptt_state = IDLE
  /\ active_trigger_keys = {}
  /\ kthreads = EmptyBag
  /\ q_pressed = {}
  /\ q_active = FALSE
  /\ qthread = QIdle
  /\ shutting_down = FALSE
  /\ ptt_active = FALSE
  /\ is_transcribing = FALSE
  /\ transcriber = None
  /\ running = {}
  /\ nSessions = 0
  /\ hist = HistInit

(***************************************************************************)
(* The binding the application is constructed with                        *)
(* (PTTKeybindManager.create_keybind_from_string, PushToTalkApp.__init__). *)
(* A binding string is a sequence of characters; an optional binding is    *)
(* the empty sequence (None) or a one-element sequence.                    *)
(***************************************************************************)
Key_cmd == "cmd"
Key_ctrl == "ctrl"
Key_alt == "alt"
Key_space == "space"
Key_tab == "tab"
Key_enter == "enter"
Key_esc == "esc"

\* the keys create_keybind_from_string counts as modifiers
ModifierKeys == {Key_cmd, Key_ctrl, Key_alt, shift, shift_l, shift_r}

\* key_mapping
key_mapping ==
  (<<"c", "m", "d">> :> Key_cmd)
  @@ (<<"c", "o", "m", "m", "a", "n", "d">> :> Key_cmd)
  @@ (<<"c", "t", "r", "l">> :> Key_ctrl)
  @@ (<<"c", "o", "n", "t", "r", "o", "l">> :> Key_ctrl)
  @@ (<<"a", "l", "t">> :> Key_alt)
  @@ (<<"o", "p", "t", "i", "o", "n">> :> Key_alt)
  @@ (<<"s", "h", "i", "f", "t">> :> shift)
  @@ (<<"l", "e", "f", "t", "s", "h", "i", "f", "t">> :> shift_l)
  @@ (<<"r", "i", "g", "h", "t", "s", "h", "i", "f", "t">> :> shift_r)
  @@ (<<"s", "p", "a", "c", "e">> :> Key_space)
  @@ (<<"t", "a", "b">> :> Key_tab)
  @@ (<<"e", "n", "t", "e", "r">> :> Key_enter)
  @@ (<<"r", "e", "t", "u", "r", "n">> :> Key_enter)
  @@ (<<"e", "s", "c">> :> Key_esc)
  @@ (<<"e", "s", "c", "a", "p", "e">> :> Key_esc)

\* str.split("+"), cur being the part read so far
RECURSIVE Split(_, _)
Split(s, cur) ==
  IF s = <<>> THEN <<cur>>
  ELSE IF Head(s) = "+" THEN <<cur>> \o Split(Tail(s), <<>>)
  ELSE Split(Tail(s), Append(cur, Head(s)))

\* "+".join(parts)
RECURSIVE JoinPlus(_)
JoinPlus(parts) ==
  IF Len(parts) = 1 THEN Head(parts)
  ELSE Head(parts) \o <<"+">> \o JoinPlus(Tail(parts))

\* the loop of create_keybind_from_string over the parts, kb holding
\* modifiers, key and char so far; a character key is named by its character
RECURSIVE ParseParts(_, _)
ParseParts(parts, kb) ==
  IF parts = <<>> THEN kb
  ELSE LET part == Head(parts)
       IN  ParseParts(Tail(parts),
             IF part \in DOMAIN key_mapping
             THEN IF key_mapping[part] \in ModifierKeys
                  THEN [kb EXCEPT !.modifiers = @ \cup {key_mapping[part]}]
                  ELSE [kb EXCEPT !.key = key_mapping[part]]
             ELSE IF Len(part) = 1
                  THEN [kb EXCEPT !.char = part[1]]
                  ELSE kb)

\* create_keybind_from_string without its test for an empty modifier set
create_keybind_from_string_unchecked(keybind_str) ==
  <<ParseParts(Split(LowerStr(keybind_str), <<>>),
               [modifiers |-> {}, key |-> NoKey, char |-> NoKey])>>

\* PTTKeybindManager.create_keybind_from_string
create_keybind_from_string(keybind_str) ==
  LET parts == Split(LowerStr(keybind_str), <<>>)
      kb == ParseParts(parts, [modifiers |-> {}, key |-> NoKey, char |-> NoKey])
  IN  IF kb.modifiers = {} THEN <<>> ELSE <<kb>>

\* the default of the "ptt" entry of the configuration
leftshift_rightshift ==
  <<"l", "e", "f", "t", "s", "h", "i", "f", "t", "+",
    "r", "i", "g", "h", "t", "s", "h", "i", "f", "t">>

\* the parts binding strings are made of: names of modifiers and of other
\* keys in the mapping, in either case, a character, a name that is not in
\* the mapping, and the empty part
KeybindParts ==
  {<<"c", "m", "d">>, <<"S", "h", "i", "f", "t">>,
   <<"l", "e", "f", "t", "s", "h", "i", "f", "t">>,
   <<"r", "i", "g", "h", "t", "s", "h", "i", "f", "t">>,
   <<"s", "p", "a", "c", "e">>, <<"E", "S", "C">>, <<"a">>, <<"f", "n">>, <<>>}

\* the binding strings of at most MaxParts parts
KeybindStrings ==
  UNION {{JoinPlus(p) : p \in [1..n -> KeybindParts]} : n \in 1..MaxParts}

\* an application that has been constructed with the default binding
\* (history: called and parsed are the call of the parser and its result)
StartupDone ==
  [pc |-> "ready", ptt_config |-> leftshift_rightshift,
   ptt_keybind |-> <<LRShift>>, called |-> FALSE, parsed |-> <<>>]

\* an application about to be constructed with the binding string s
StartupWith(s) ==
  [pc |-> "init", ptt_config |-> s, ptt_keybind |-> <<>>,
   called |-> FALSE, parsed |-> <<>>]

\* PushToTalkApp.__init__: self.ptt_keybind from the "ptt" entry
PushToTalkApp_init(st) ==
  IF st.ptt_config = leftshift_rightshift
  THEN [st EXCEPT !.pc = "ready", !.ptt_keybind = <<LRShift>>]
  ELSE LET parsed_keybind == create_keybind_from_string(st.ptt_config)
       IN  [st EXCEPT !.pc = "ready", !.called = TRUE,
                      !.parsed = parsed_keybind,
                      !.ptt_keybind = IF parsed_keybind # <<>>
                                      THEN parsed_keybind
                                      ELSE <<LRShift>>]

AppInit ==
  /\ startup.pc = "init"
  /\ startup' = PushToTalkApp_init(startup)
  /\ UNCHANGED <<keyVars, injVars, ptVars, main, reducer, audio, qwait, wd>>

NextKeybind == AppInit

(***************************************************************************)
(* The microphone stream of a PTTTranscriber (start_transcription,         *)
(* stop_transcription, cleanup, _cleanup_audio).  Streams are numbered in  *)
(* the order they are opened; audio_stream is None or a stream's number.   *)
(* Each thread of AudioThreads runs one call after another, in any         *)
(* interleaving with the other.  An attribute read outside a lock is a     *)
(* step of its own; a with-block that only touches the flag is one step.   *)
(***************************************************************************)
AudioThreads == {1, 2}

NotOpened == [opened |-> FALSE, active |-> FALSE, stops |-> 0, closes |-> 0]

\* a transcriber just constructed.  History: streams[s] counts the calls of
\* stop_stream and close on stream s; spared tells that a _cleanup_audio
\* call returned without touching a stream after some stream was closed
AudioInit ==
  [audio_stream |-> None, audio_cleaned_up |-> FALSE, lock |-> None,
   streams |-> [s \in 1..MaxStreams |-> NotOpened], nOpened |-> 0,
   th |-> [t \in AudioThreads |-> [pc |-> "idle", op |-> "none",
                                   touched |-> FALSE]],
   spared |-> FALSE]

\* thread t goes on at pc
AGoto(a, t, pc) == [a EXCEPT !.th[t].pc = pc]

\* _cleanup_audio returns to its caller: stop_transcription goes on to its
\* reset of the flag, cleanup is finished
AReturn(a, t) ==
  [a EXCEPT !.lock = None,
            !.th[t].pc = IF a.th[t].op = "stop" THEN "R" ELSE "idle",
            !.spared = @ \/ (~a.th[t].touched
                             /\ \E s \in 1..MaxStreams : a.streams[s].closes > 0)]

\* one more call, counted up to two
Once(n) == IF n < 2 THEN n + 1 ELSE 2

\* _cleanup_audio without the cleaned-up flag and without the finally that
\* forgets the stream
cleanup_audio_unguarded(a, t, raises) ==
  LET pc == a.th[t].pc
      s == a.audio_stream
  IN  CASE pc = "C0" ->
             [AGoto(a, t, "C1") EXCEPT !.lock = t, !.th[t].touched = FALSE]
        [] pc = "C1" ->
             IF s = None THEN AReturn(a, t) ELSE AGoto(a, t, "C2")
        [] pc = "C2" ->
             IF a.streams[s].active THEN AGoto(a, t, "C3") ELSE AGoto(a, t, "C4")
        [] pc = "C3" ->
             [AGoto(a, t, "C4") EXCEPT !.streams[s].stops = Once(@),
                                       !.streams[s].active = FALSE,
                                       !.th[t].touched = TRUE]
        [] pc = "C4" ->
             [AGoto(a, t, "C5") EXCEPT !.streams[s].closes = Once(@),
                                       !.streams[s].active = FALSE,
                                       !.th[t].touched = TRUE]
        [] pc = "C5" -> AReturn(a, t)

\* PTTTranscriber._cleanup_audio, one step of thread t; raises: the call of
\* the stream made in this step raises
cleanup_audio(a, t, raises) ==
  LET pc == a.th[t].pc
      s == a.audio_stream
  IN  CASE pc = "C0" ->
             \* with self._audio_cleanup_lock: if self._audio_cleaned_up:
             \* return; self._audio_cleaned_up = True
             IF a.audio_cleaned_up
             THEN AReturn([a EXCEPT !.th[t].touched = FALSE], t)
             ELSE [AGoto(a, t, "C1") EXCEPT !.lock = t,
                                            !.audio_cleaned_up = TRUE,
                                            !.th[t].touched = FALSE]
        [] pc = "C1" ->
             \* if self.audio_stream:
             IF s = None THEN AReturn(a, t) ELSE AGoto(a, t, "C2")
        [] pc = "C2" ->
             \* if self.audio_stream.is_active():
             IF raises THEN AGoto(a, t, "C5")
             ELSE IF a.streams[s].active THEN AGoto(a, t, "C3")
             ELSE AGoto(a, t, "C4")
        [] pc = "C3" ->
             \* self.audio_stream.stop_stream()
             [AGoto(a, t, "C4") EXCEPT !.streams[s].stops = Once(@),
                                       !.streams[s].active = raises,
                                       !.th[t].touched = TRUE]
        [] pc = "C4" ->
             \* self.audio_stream.close()
             [AGoto(a, t, "C5") EXCEPT !.streams[s].closes = Once(@),
                                       !.streams[s].active = FALSE,
                                       !.th[t].touched = TRUE]
        [] pc = "C5" ->
             \* finally: self.audio_stream = None
             AReturn([a EXCEPT !.audio_stream = None], t)

\* start_transcription, what it does to the stream: the flag is reset under
\* the lock (S0), then the microphone is opened and kept (S1); raises: open
\* raises and start_transcription gives up
start_transcription_audio(a, t, raises) ==
  IF a.th[t].pc = "S0"
  THEN [AGoto(a, t, "S1") EXCEPT !.audio_cleaned_up = FALSE]
  ELSE IF raises THEN AGoto(a, t, "idle")
  ELSE [AGoto(a, t, "idle") EXCEPT
          !.nOpened = @ + 1,
          !.audio_stream = a.nOpened + 1,
          !.streams[a.nOpened + 1] =
             [opened |-> TRUE, active |-> TRUE, stops |-> 0, closes |-> 0]]

\* stop_transcription after its _cleanup_audio: the flag is reset under the
\* lock for the next session
stop_transcription_reset(a, t) ==
  [AGoto(a, t, "idle") EXCEPT !.audio_cleaned_up = FALSE]

\* the position a call starts at
AudioOps == {"start", "stop", "cleanup"}

\* thread t calls start_transcription, stop_transcription or cleanup
AudioCall(t, op) ==
  /\ audio.th[t].pc = "idle"
  /\ op = "start" =>
       audio.nOpened + Cardinality({u \in AudioThreads :
                                       audio.th[u].pc \in {"S0", "S1"}})
         < MaxStreams
  /\ audio' = [audio EXCEPT !.th[t].op = op,
                            !.th[t].pc = IF op = "start" THEN "S0" ELSE "C0"]
  /\ UNCHANGED <<keyVars, injVars, ptVars, main, reducer, startup, qwait, wd>>

\* thread t takes a step of _cleanup_audio: it waits for the lock at C0
CleanupAudioStep(t) ==
  /\ audio.th[t].pc \in {"C0", "C1", "C2", "C3", "C4", "C5"}
  /\ audio.th[t].pc = "C0" => audio.lock = None
  /\ \E raises \in BOOLEAN :
       /\ raises => audio.th[t].pc \in {"C2", "C3", "C4"}
       /\ audio' = cleanup_audio(audio, t, raises)
  /\ UNCHANGED <<keyVars, injVars, ptVars, main, reducer, startup, qwait, wd>>

\* thread t takes a step of start_transcription
StartAudioStep(t) ==
  /\ audio.th[t].pc \in {"S0", "S1"}
  /\ audio.th[t].pc = "S0" => audio.lock = None
  /\ \E raises \in BOOLEAN :
       /\ raises => audio.th[t].pc = "S1"
       /\ audio' = start_transcription_audio(audio, t, raises)
  /\ UNCHANGED <<keyVars, injVars, ptVars, main, reducer, startup, qwait, wd>>

\* thread t resets the flag at the end of stop_transcription
StopResetStep(t) ==
  /\ audio.th[t].pc = "R"
  /\ audio.lock = None
  /\ audio' = stop_transcription_reset(audio, t)
  /\ UNCHANGED <<keyVars, injVars, ptVars, main, reducer, startup, qwait, wd>>

NextAudio ==
  \/ \E t \in AudioThreads, op \in AudioOps : AudioCall(t, op)
  \/ \E t \in AudioThreads : CleanupAudioStep(t)
  \/ \E t \in AudioThreads : StartAudioStep(t)
  \/ \E t \in AudioThreads : StopResetStep(t)

(***************************************************************************)
(* The quiet-period wait of PTTTranscriber.stop_transcription, with time.  *)
(* The clock counts in units of the wait's sleep (0.05 s); final_quiet and *)
(* max_wait are in the same unit.  A statement takes no time and a sleep   *)
(* takes exactly one unit: the clock does not pass the moment a sleeping   *)
(* thread is due to wake.  _on_ws_message stamps _last_ws_msg_time at any  *)
(* moment while the transport is open.                                     *)
(***************************************************************************)
\* a session in progress whose stop will wait final_quiet, at most max_wait.
\* History: ended, end_time and end_last are the moment the wait ended and
\* _last_ws_msg_time at that moment; during tells that a message arrived
\* during the wait
WaitStart(final_quiet, max_wait) ==
  [pc |-> "rec", now |-> 0, suppress |-> FALSE,
   final_quiet |-> final_quiet, max_wait |-> max_wait,
   last_ws_msg_time |-> 0, start_wait |-> 0, wake |-> 0,
   terminate_sent |-> FALSE, ws |-> "open",
   ended |-> FALSE, end_time |-> 0, end_last |-> 0, during |-> FALSE]

\* a transcriber that nobody stops
WaitInit == WaitStart(0, 0)

\* the wait is over: the thread goes on to the Terminate message
EndWait(w) ==
  [w EXCEPT !.pc = "Q4", !.ended = TRUE, !.end_time = w.now,
            !.end_last = w.last_ws_msg_time]

\* the wait without the bound of max_wait on its loop
quiet_wait_unbounded(w) ==
  CASE w.pc = "Q0" ->
         IF ~w.suppress THEN [w EXCEPT !.start_wait = w.now, !.pc = "Q1"]
         ELSE [w EXCEPT !.pc = "Q4"]
    [] w.pc = "Q1" -> [w EXCEPT !.pc = "Q2"]
    [] w.pc = "Q2" ->
         IF w.now - w.last_ws_msg_time >= w.final_quiet THEN EndWait(w)
         ELSE [w EXCEPT !.pc = "Q3", !.wake = w.now + 1]
    [] w.pc = "Q3" -> [w EXCEPT !.pc = "Q1"]

\* stop_transcription from its test of suppress_output to the end of the
\* wait, one statement of the stopping thread
quiet_wait(w) ==
  CASE w.pc = "Q0" ->   \* if not suppress_output: start_wait = time.time()
         IF ~w.suppress THEN [w EXCEPT !.start_wait = w.now, !.pc = "Q1"]
         ELSE [w EXCEPT !.pc = "Q4"]
    [] w.pc = "Q1" ->   \* while (time.time() - start_wait) < max_wait_s
         IF w.now - w.start_wait < w.max_wait THEN [w EXCEPT !.pc = "Q2"]
         ELSE EndWait(w)
    [] w.pc = "Q2" ->   \* if (time.time() - _last_ws_msg_time) >= quiet_s
         IF w.now - w.last_ws_msg_time >= w.final_quiet THEN EndWait(w)
         ELSE [w EXCEPT !.pc = "Q3", !.wake = w.now + 1]
    [] w.pc = "Q3" ->   \* time.sleep(0.05) returns
         [w EXCEPT !.pc = "Q1"]

\* stop_transcription after the wait: the Terminate message, then the close
terminate_and_close(w) ==
  IF w.pc = "Q4" THEN [w EXCEPT !.terminate_sent = TRUE, !.pc = "Q5"]
  ELSE [w EXCEPT !.ws = "closed", !.pc = "done"]

\* stop_transcription(suppress_output) is called
WaitCall(suppress) ==
  /\ qwait.pc = "rec"
  /\ qwait' = [qwait EXCEPT !.pc = "Q0", !.suppress = suppress]
  /\ UNCHANGED <<keyVars, injVars, ptVars, main, reducer, startup, audio, wd>>

\* the stopping thread runs a statement of the wait; a sleeping thread
\* wakes when its time has come
WaitStep ==
  /\ qwait.pc \in {"Q0", "Q1", "Q2", "Q3"}
  /\ qwait.pc = "Q3" => qwait.now >= qwait.wake
  /\ qwait' = quiet_wait(qwait)
  /\ UNCHANGED <<keyVars, injVars, ptVars, main, reducer, startup, audio, wd>>

\* the stopping thread sends Terminate, then closes the transport
TerminateStep ==
  /\ qwait.pc \in {"Q4", "Q5"}
  /\ qwait' = terminate_and_close(qwait)
  /\ UNCHANGED <<keyVars, injVars, ptVars, main, reducer, startup, audio, wd>>

\* _on_ws_message: self._last_ws_msg_time = time.time()
WaitMessage ==
  /\ qwait.ws = "open"
  /\ qwait' = [qwait EXCEPT
                 !.last_ws_msg_time = qwait.now,
                 !.during = @ \/ qwait.pc \in {"Q1", "Q2", "Q3"}]
  /\ UNCHANGED <<keyVars, injVars, ptVars, main, reducer, startup, audio, wd>>

\* time passes while the session records or the stopping thread sleeps
Tick ==
  /\ \/ qwait.pc = "rec" /\ qwait.now < MaxQuiet
     \/ qwait.pc = "Q3" /\ qwait.now < qwait.wake
  /\ qwait' = [qwait EXCEPT !.now = @ + 1]
  /\ UNCHANGED <<keyVars, injVars, ptVars, main, reducer, startup, audio, wd>>

NextWait ==
  \/ \E suppress \in BOOLEAN : WaitCall(suppress)
  \/ WaitStep
  \/ TerminateStep
  \/ WaitMessage
  \/ Tick

(***************************************************************************)
(* The threads of a monitor across start() and stop().  Each monitor has a *)
(* delivery thread (the hook library's listener, the run-loop thread of    *)
(* the event tap) and a supervising thread (_monitor_listener,             *)
(* _monitor_tap) that sleeps 2.0 s between two tests of its stop event.    *)
(* A monitor is a record: call, the statement of start() or stop() its     *)
(* caller is at; inner, stop() was called by start(); started, the last    *)
(* call that returned was start(); stop, the event _stop_monitor or _stop; *)
(* listener, the thread self.listener or self._thread refers to;           *)
(* monitor_thread, the thread self._monitor_thread refers to; sup and run, *)
(* the state of every supervising and delivery thread ever created.  The   *)
(* listener of the hook library does not die here, so _monitor_listener    *)
(* has nothing to restart.                                                 *)
(***************************************************************************)
ThreadIds == 1..MaxMonThreads

MonInit ==
  [call |-> "idle", inner |-> FALSE, started |-> FALSE, stop |-> FALSE,
   listener |-> None, monitor_thread |-> None,
   sup |-> [i \in ThreadIds |-> "unborn"],
   run |-> [i \in ThreadIds |-> "unborn"]]

\* the identity of the next thread created
NewId(f) == CHOOSE i \in ThreadIds :
              f[i] = "unborn" /\ \A j \in 1..(i - 1) : f[j] # "unborn"

\* self._monitor_thread and self._monitor_thread.is_alive()
monitor_alive(M) ==
  M.monitor_thread # None /\ M.sup[M.monitor_thread] \in {"test", "sleep"}

\* self._thread and self._thread.is_alive()
thread_alive(M) == M.listener # None /\ M.run[M.listener] = "run"

\* the supervising and the delivery threads that are alive
Supervisors(M) == {i \in ThreadIds : M.sup[i] \in {"test", "sleep"}}
Deliverers(M) == {i \in ThreadIds : M.run[i] = "run"}

\* the new supervising thread is started
StartSupervisor(M) ==
  [M EXCEPT !.monitor_thread = NewId(M.sup), !.sup[NewId(M.sup)] = "test"]

\* PTTKeybindManager.stop
PTTKeybindManager_stop(M) ==
  CASE M.call = "KZ0" ->   \* self._stop_monitor.set()
         [M EXCEPT !.stop = TRUE, !.call = "KZ1"]
    [] M.call = "KZ1" ->   \* if self.listener: listener.stop(); listener = None
         IF M.listener = None THEN [M EXCEPT !.call = "KZ2"]
         ELSE [M EXCEPT !.run[M.listener] = "dead", !.listener = None,
                        !.call = "KZ2"]
    [] M.call = "KZ2" ->   \* if monitor alive: join(timeout=1.0), which
                           \* returns when it has ended or after 1.0 s
         [M EXCEPT !.call = "KZ3"]
    [] M.call = "KZ3" ->   \* self.reset_state(); return
         IF M.inner THEN [M EXCEPT !.inner = FALSE, !.call = "KS1"]
         ELSE [M EXCEPT !.started = FALSE, !.call = "idle"]

\* PTTKeybindManager.start
PTTKeybindManager_start(M) ==
  CASE M.call = "KS0" ->   \* if self.listener: self.stop()
         IF M.listener # None THEN [M EXCEPT !.inner = TRUE, !.call = "KZ0"]
         ELSE [M EXCEPT !.call = "KS1"]
    [] M.call = "KS1" ->   \* self.listener = keyboard.Listener(...); start()
         [M EXCEPT !.listener = NewId(M.run), !.run[NewId(M.run)] = "run",
                   !.call = "KS2"]
    [] M.call = "KS2" ->   \* if not _monitor_thread or not is_alive():
                           \*     _stop_monitor.clear(); start a new one
         IF monitor_alive(M) THEN [M EXCEPT !.started = TRUE, !.call = "idle"]
         ELSE [StartSupervisor([M EXCEPT !.stop = FALSE])
                 EXCEPT !.started = TRUE, !.call = "idle"]

\* EventTapPTTListener.stop
EventTapPTTListener_stop(M) ==
  CASE M.call = "QZ0" ->   \* self._stop.set()
         [M EXCEPT !.stop = TRUE, !.call = "QZ1"]
    [] M.call = "QZ1" ->   \* if _thread alive: _thread.join(timeout=1.0)
         [M EXCEPT !.call = "QZ2"]
    [] M.call = "QZ2" ->   \* if monitor alive: _monitor_thread.join(1.0)
         [M EXCEPT !.call = "QZ3"]
    [] M.call = "QZ3" ->   \* self._thread = None; self._monitor_thread = None
         [M EXCEPT !.listener = None, !.monitor_thread = None,
                   !.started = FALSE, !.call = "idle"]

\* EventTapPTTListener.start
EventTapPTTListener_start(M) ==
  CASE M.call = "QS0" ->   \* if self._thread and is_alive(): return
         IF thread_alive(M) THEN [M EXCEPT !.started = TRUE, !.call = "idle"]
         ELSE [M EXCEPT !.call = "QS1"]
    [] M.call = "QS1" ->   \* self._stop.clear()
         [M EXCEPT !.stop = FALSE, !.call = "QS2"]
    [] M.call = "QS2" ->   \* self._thread = Thread(target=_run); start()
         [M EXCEPT !.listener = NewId(M.run), !.run[NewId(M.run)] = "run",
                   !.call = "QS3"]
    [] M.call = "QS3" ->   \* if not _monitor_thread or not is_alive():
                           \*     start a new one
         IF monitor_alive(M) THEN [M EXCEPT !.started = TRUE, !.call = "idle"]
         ELSE [StartSupervisor(M) EXCEPT !.started = TRUE, !.call = "idle"]

\* _monitor_listener and _monitor_tap: while not stop.is_set(): sleep(2.0)
\* and the checks of the listener or the tap
monitor_loop(M, i) ==
  CASE M.sup[i] = "test" ->
         [M EXCEPT !.sup[i] = IF M.stop THEN "dead" ELSE "sleep"]
    [] M.sup[i] = "sleep" -> [M EXCEPT !.sup[i] = "test"]

\* _run, the run-loop thread of the tap, finds `while not self._stop.is_set()`
\* false and ends
run_loop_ends(M, i) == [M EXCEPT !.run[i] = "dead"]

FirstStatement(m, op) ==
  CASE m = "kbm" /\ op = "start" -> "KS0"
    [] m = "kbm" /\ op = "stop" -> "KZ0"
    [] m = "quartz" /\ op = "start" -> "QS0"
    [] m = "quartz" /\ op = "stop" -> "QZ0"

monUnchanged ==
  UNCHANGED <<keyVars, injVars, ptVars, main, reducer, startup, audio, qwait>>

\* start() or stop() of monitor m is called and runs its first statement
MonitorCall(m, op) ==
  /\ wd.mon[m].call = "idle"
  /\ op = "start" => (\E i \in ThreadIds : wd.mon[m].sup[i] = "unborn")
                       /\ (\E i \in ThreadIds : wd.mon[m].run[i] = "unborn")
  /\ LET M == [wd.mon[m] EXCEPT !.call = FirstStatement(m, op)]
     IN  wd' = [wd EXCEPT !.mon[m] =
                  CASE M.call = "KS0" -> PTTKeybindManager_start(M)
                    [] M.call = "KZ0" -> PTTKeybindManager_stop(M)
                    [] M.call = "QS0" -> EventTapPTTListener_start(M)
                    [] M.call = "QZ0" -> EventTapPTTListener_stop(M)]
  /\ monUnchanged

\* the caller runs the next statement of start() or stop()
MonitorCallStep(m) ==
  /\ wd.mon[m].call # "idle"
  /\ LET M == wd.mon[m]
     IN  wd' = [wd EXCEPT !.mon[m] =
                  CASE M.call \in {"KS0", "KS1", "KS2"} ->
                         PTTKeybindManager_start(M)
                    [] M.call \in {"KZ0", "KZ1", "KZ2", "KZ3"} ->
                         PTTKeybindManager_stop(M)
                    [] M.call \in {"QS0", "QS1", "QS2", "QS3"} ->
                         EventTapPTTListener_start(M)
                    [] M.call \in {"QZ0", "QZ1", "QZ2", "QZ3"} ->
                         EventTapPTTListener_stop(M)]
  /\ monUnchanged

\* a supervising thread runs one statement
SupervisorStep(m, i) ==
  /\ wd.mon[m].sup[i] \in {"test", "sleep"}
  /\ wd' = [wd EXCEPT !.mon[m] = monitor_loop(wd.mon[m], i)]
  /\ monUnchanged

\* the run-loop thread of the tap tests _stop (at most 0.5 s after it was
\* set) and ends
RunLoopEnds(i) ==
  /\ wd.mon["quartz"].run[i] = "run"
  /\ wd.mon["quartz"].stop
  /\ wd' = [wd EXCEPT !.mon["quartz"] = run_loop_ends(wd.mon["quartz"], i)]
  /\ monUnchanged

NextRestart ==
  \/ \E m \in Monitors, op \in {"start", "stop"} : MonitorCall(m, op)
  \/ \E m \in Monitors : MonitorCallStep(m)
  \/ \E m \in Monitors, i \in ThreadIds : SupervisorStep(m, i)
  \/ \E i \in ThreadIds : RunLoopEnds(i)

(***************************************************************************)
(* The stuck-state guard of PushToTalkApp._watch_keyboard_listener.  The   *)
(* watchdog thread finds ptt_active set for longer than the threshold      *)
(* (time is not modelled: any moment at which ptt_active is set and the    *)
(* events and callbacks of the press, which take far less than the         *)
(* threshold, are over may be such a moment), calls _on_ptt_release,       *)
(* resets and restarts the hook-library monitor and stops and starts the   *)
(* event-tap monitor.  A                                                   *)
(* monitor that is stopped receives no events, and the events waiting for  *)
(* its old delivery thread are lost.                                       *)
(***************************************************************************)
\* the watchdog between two passes, both monitors started.  History: fires
\* counts the passes of the guard, snap holds what the pass found when it
\* began, end the key-downs and on_press calls made when it ended.
\* kbm_up and quartz_up: the monitor's delivery thread is alive; listener:
\* kbm.listener is not None; q_thread: quartz_listener._thread is not None;
\* stop: listener_watchdog_stop; loop: the watchdog's position in its loop;
\* cleanup: the main thread's position in cleanup(); deaths: the delivery
\* threads that died (history); mon: the threads of each monitor across
\* its start() and stop()
WdInit ==
  [pc |-> "idle", th |-> [pc |-> "end", t |-> None],
   kbm_up |-> TRUE, quartz_up |-> TRUE, fires |-> 0,
   listener |-> TRUE, q_thread |-> TRUE, stop |-> FALSE, loop |-> "test",
   cleanup |-> "run", deaths |-> 0,
   mon |-> [m \in Monitors |-> MonInit],
   snap |-> [phys |-> {}, nDown |-> 0, q_pressed |-> {}, q_active |-> FALSE],
   end |-> [nDown |-> 0, presses |-> 0]]

\* PTTKeybindManager.reset_state
reset_state(k) ==
  [k EXCEPT !.pressed_keys = {}, !.active_trigger_keys = {},
            !.ptt_state = IDLE, !.left = FALSE, !.right = FALSE]

\* PTTKeybindManager.stop up to listener.stop(): the trigger is released
\* if it is pressed
kbm_stop(k) == IF k.ptt_state = PRESSED THEN trigger_release(k) ELSE k

\* the hook-library monitor's fields after the watchdog's statement at pc
WdKbm(pc, k) ==
  CASE pc \in {"G2", "G5", "G6"} -> reset_state(k)
    [] pc = "G4" -> kbm_stop(k)
    [] OTHER -> k

\* the position after pc in the guard
WdNext(pc) ==
  CASE pc = "G2" -> "G3" [] pc = "G3" -> "G4" [] pc = "G4" -> "G5"
    [] pc = "G5" -> "G6" [] pc = "G6" -> "G7" [] pc = "G7" -> "G8"
    [] pc = "G8" -> "G9" [] pc = "G9" -> "idle"

\* if self.ptt_active and self.ptt_pressed_at is not None and the threshold
\* has passed: the watchdog calls self._on_ptt_release()
WatchdogFire ==
  /\ wd.pc = "idle"
  /\ wd.fires < MaxFires
  /\ callbacks = "app"
  /\ ptt_active
  /\ qK = <<>> /\ qQ = <<>>
  /\ kthreads = EmptyBag /\ qthread.pc = "idle"
  /\ wd' = [wd EXCEPT !.pc = "rel", !.th = [pc |-> "R0", t |-> None],
                      !.fires = @ + 1,
                      !.snap = [phys |-> phys, nDown |-> nDown,
                                q_pressed |-> q_pressed,
                                q_active |-> q_active]]
  /\ UNCHANGED <<keyVars, injVars, ptVars, main, reducer, startup, audio, qwait>>

\* the watchdog inside the _on_ptt_release it called
WatchdogRelease ==
  /\ wd.pc = "rel"
  /\ LET r == AppStep(wd.th, AppState)
     IN  /\ SetApp(r.app)
         /\ hist' = [hist EXCEPT !.stops = r.app.stops]
         /\ wd' = IF r.th.pc = "end"
                  THEN [wd EXCEPT !.pc = "G2", !.th = r.th]
                  ELSE [wd EXCEPT !.th = r.th]
  /\ UNCHANGED <<envVars, kbmVars, kthreads, quartzVars, qthread, injVars,
                 ptVars, main, reducer, startup, audio, qwait>>

\* the watchdog after the release: kbm.reset_state() (G2); ptt_active =
\* False (G3); _restart_key_listener: kbm.stop() up to listener.stop() (G4)
\* and its reset_state() (G5), kbm.reset_state() (G6), kbm.start() (G7);
\* quartz_listener.stop() (G8) and, after the sleep, start() (G9)
WatchdogStep ==
  /\ wd.pc \in {"G2", "G3", "G4", "G5", "G6", "G7", "G8", "G9"}
  /\ LET k == WdKbm(wd.pc, KbmState)
     IN  /\ pressed_keys' = k.pressed_keys
         /\ left_shift_pressed' = k.left
         /\ right_shift_pressed' = k.right
         /\ ptt_state' = k.ptt_state
         /\ active_trigger_keys' = k.active_trigger_keys
         /\ kthreads' = IF k.spawn = "none" THEN kthreads
                        ELSE kthreads (+) SetToBag({NewThread(k.spawn)})
         /\ hist' = [hist EXCEPT !.kRel = @ + Bit(k.spawn = "release")]
  /\ qK' = IF wd.pc = "G4" THEN <<>> ELSE qK
  /\ qQ' = IF wd.pc = "G8" THEN <<>> ELSE qQ
  /\ ptt_active' = IF wd.pc = "G3" THEN FALSE ELSE ptt_active
  /\ wd' = [wd EXCEPT !.pc = WdNext(wd.pc),
                      !.kbm_up = IF wd.pc = "G4" THEN FALSE
                                 ELSE IF wd.pc = "G7" THEN TRUE ELSE @,
                      !.quartz_up = IF wd.pc = "G8" THEN FALSE
                                    ELSE IF wd.pc = "G9" THEN TRUE ELSE @,
                      !.end = IF wd.pc = "G9"
                              THEN [nDown |-> nDown,
                                    presses |-> hist.kPress + hist.qPress]
                              ELSE @]
  \* one more key-down is explored after the pass
  /\ maxDown' = IF wd.pc = "G9" THEN MaxStuckKeyDowns ELSE maxDown
  /\ UNCHANGED <<phys, nDown, mode, keyset, callbacks, ptt_keybind, quartzVars, qthread,
                 shutting_down, is_transcribing, transcriber, running,
                 nSessions, injVars, ptVars, main, reducer, startup, audio, qwait>>

(***************************************************************************)
(* The liveness checks of the watchdog's loop, and cleanup() stopping the  *)
(* watchdog and the monitors.  A delivery thread may die at any time.      *)
(***************************************************************************)
\* the pynput listener stops running, or the run-loop thread of the tap
\* exits
DeliveryThreadDies(m) ==
  /\ wd.deaths < MaxDeaths
  /\ IF m = "kbm" THEN wd.kbm_up ELSE wd.quartz_up
  /\ wd' = IF m = "kbm"
           THEN [wd EXCEPT !.kbm_up = FALSE, !.deaths = @ + 1]
           ELSE [wd EXCEPT !.quartz_up = FALSE, !.deaths = @ + 1]
  /\ UNCHANGED <<keyVars, injVars, ptVars, main, reducer, startup, audio, qwait>>

\* EventTapPTTListener.is_running
is_running(w) == w.q_thread /\ w.quartz_up

\* (kbm is None) or (kbm.listener is None) or (not kbm.listener.running)
kbm_not_running(w) == ~w.listener \/ ~w.kbm_up

\* the loop of _watch_keyboard_listener: while not
\* listener_watchdog_stop.is_set() ("test"); time.sleep(check_interval)
\* ("sleep"); the hook-library listener is restarted by
\* _restart_key_listener if it is missing or not running ("kbm"); the event
\* tap is stopped and started if it is not running ("quartz"); the
\* stuck-state guard finds ptt_active false
watch_keyboard_listener(w) ==
  CASE w.loop = "test" ->
         [w EXCEPT !.loop = IF w.stop THEN "ended" ELSE "sleep"]
    [] w.loop = "sleep" ->
         [w EXCEPT !.loop = "kbm"]
    [] w.loop = "kbm" ->
         IF kbm_not_running(w)
         THEN [w EXCEPT !.loop = "quartz", !.listener = TRUE, !.kbm_up = TRUE]
         ELSE [w EXCEPT !.loop = "quartz"]
    [] w.loop = "quartz" ->
         IF ~is_running(w)
         THEN [w EXCEPT !.loop = "test", !.q_thread = TRUE, !.quartz_up = TRUE]
         ELSE [w EXCEPT !.loop = "test"]

\* one statement of the watchdog's loop; a restart of the hook-library
\* monitor goes through kbm.stop(), kbm.reset_state() and kbm.start()
WatchdogLoopStep ==
  /\ wd.loop # "ended"
  /\ wd.pc = "idle"
  /\ ~ptt_active
  /\ wd' = watch_keyboard_listener(wd)
  /\ LET restart == wd.loop = "kbm" /\ kbm_not_running(wd)
         k == IF restart THEN reset_state(kbm_stop(KbmState)) ELSE KbmState
     IN  /\ pressed_keys' = k.pressed_keys
         /\ left_shift_pressed' = k.left
         /\ right_shift_pressed' = k.right
         /\ ptt_state' = k.ptt_state
         /\ active_trigger_keys' = k.active_trigger_keys
         /\ kthreads' = IF k.spawn = "none" THEN kthreads
                        ELSE kthreads (+) SetToBag({NewThread(k.spawn)})
         /\ hist' = [hist EXCEPT !.kRel = @ + Bit(k.spawn = "release")]
         /\ qK' = IF restart THEN <<>> ELSE qK
  /\ qQ' = IF wd.loop = "quartz" /\ ~is_running(wd) THEN <<>> ELSE qQ
  /\ UNCHANGED <<phys, nDown, cfgVars, ptt_keybind, quartzVars, qthread,
                 appVars, injVars, ptVars, main, reducer, startup, audio, qwait>>

\* PushToTalkApp.cleanup as far as the watchdog and the monitors go:
\* shutting_down.set() ("run"); listener_watchdog_stop.set() ("W0");
\* listener_watchdog_thread.join(timeout=1.0) ("join"), which returns when
\* the watchdog has ended or the timeout has elapsed;
\* quartz_listener.stop() ("qstop"); kbm.stop() ("kstop")
cleanup_monitors(w) ==
  CASE w.cleanup = "run" -> [w EXCEPT !.cleanup = "W0"]
    [] w.cleanup = "W0" -> [w EXCEPT !.cleanup = "join", !.stop = TRUE]
    [] w.cleanup = "join" -> [w EXCEPT !.cleanup = "qstop"]
    [] w.cleanup = "qstop" ->
         [w EXCEPT !.cleanup = "kstop", !.q_thread = FALSE, !.quartz_up = FALSE]
    [] w.cleanup = "kstop" ->
         [w EXCEPT !.cleanup = "done", !.listener = FALSE, !.kbm_up = FALSE]

CleanupMonitorsStep ==
  /\ wd.cleanup # "done"
  /\ wd.pc = "idle"
  /\ wd' = cleanup_monitors(wd)
  /\ shutting_down' = TRUE
  /\ qQ' = IF wd.cleanup = "qstop" THEN <<>> ELSE qQ
  /\ LET k == IF wd.cleanup = "kstop" /\ wd.listener
              THEN reset_state(kbm_stop(KbmState))
              ELSE IF wd.cleanup = "kstop" THEN reset_state(KbmState)
              ELSE KbmState
     IN  /\ pressed_keys' = k.pressed_keys
         /\ left_shift_pressed' = k.left
         /\ right_shift_pressed' = k.right
         /\ ptt_state' = k.ptt_state
         /\ active_trigger_keys' = k.active_trigger_keys
         /\ kthreads' = IF k.spawn = "none" THEN kthreads
                        ELSE kthreads (+) SetToBag({NewThread(k.spawn)})
         /\ hist' = [hist EXCEPT !.kRel = @ + Bit(k.spawn = "release")]
         /\ qK' = IF wd.cleanup = "kstop" THEN <<>> ELSE qK
  /\ UNCHANGED <<phys, nDown, cfgVars, ptt_keybind, quartzVars, qthread,
                 ptt_active, is_transcribing, transcriber, running, nSessions,
                 injVars, ptVars, main, reducer, startup, audio, qwait>>

NextWatch ==
  \/ \E m \in Monitors : DeliveryThreadDies(m)
  \/ WatchdogLoopStep
  \/ CleanupMonitorsStep

NextStuck ==
  \/ \E k \in Keys : KeyDown(k)
  \/ \E k \in Keys : KeyUp(k)
  \/ KbmDeliver
  \/ \E th \in KThreadStates : KbmThreadStep(th)
  \/ QuartzDeliver
  \/ QuartzThreadStep
  \/ WatchdogFire
  \/ WatchdogRelease
  \/ WatchdogStep

\* the state outside the main thread and the reducer that a specification
\* about something else starts in
InitExt ==
  /\ startup = StartupDone
  /\ audio = AudioInit
  /\ qwait = WaitInit
  /\ wd = WdInit

\* the construction of the application on its own: the configuration holds
\* any binding string
InitKeybind ==
  /\ InitMonitors
  /\ InitInjector
  /\ session = SessionInit
  /\ main = MainInit
  /\ reducer = ReducerInit
  /\ startup \in {StartupWith(str) : str \in KeybindStrings}
  /\ audio = AudioInit
  /\ qwait = WaitInit
  /\ wd = WdInit
  /\ track = "order"
  /\ mode = [x \in Monitors |-> "none"]
  /\ maxDown = 0
  /\ keyset = {}
  /\ callbacks = "test"

\* a transcriber's microphone stream on its own
InitAudio ==
  /\ InitMonitors
  /\ InitInjector
  /\ session = SessionInit
  /\ main = MainInit
  /\ reducer = ReducerInit
  /\ InitExt
  /\ track = "order"
  /\ mode = [x \in Monitors |-> "none"]
  /\ maxDown = 0
  /\ keyset = {}
  /\ callbacks = "test"

\* a session's reducer on its own, the turns being three words long
InitTurns ==
  /\ InitMonitors
  /\ InitInjector
  /\ session = SessionInit
  /\ main = MainInit
  /\ InitExt
  /\ reducer \in {ReducerStart(tb, script) :
                    tb \in Tables,
                    script \in [1..MaxTurns ->
                                 {sn \in Sentences : Len(sn) = MaxWords}]}
  /\ track = "order"
  /\ mode = [x \in Monitors |-> "none"]
  /\ maxDown = 0
  /\ keyset = {}
  /\ callbacks = "test"

\* a session about to be stopped, with any quiet period and any bound on
\* the wait
InitWait ==
  /\ InitMonitors
  /\ InitInjector
  /\ session = SessionInit
  /\ main = MainInit
  /\ reducer = ReducerInit
  /\ startup = StartupDone
  /\ audio = AudioInit
  /\ wd = WdInit
  /\ qwait \in {WaitStart(q, m) : q \in 0..MaxQuiet, m \in 0..MaxWait}
  /\ track = "order"
  /\ mode = [x \in Monitors |-> "none"]
  /\ maxDown = 0
  /\ keyset = {}
  /\ callbacks = "test"

\* the application with both monitors receiving every event and the
\* watchdog running
InitStuck ==
  /\ InitMonitors
  /\ InitInjector
  /\ session = SessionInit
  /\ main = MainInit
  /\ InitExt
  /\ reducer = ReducerInit
  /\ track = "order"
  /\ mode = [x \in Monitors |-> "all"]
  /\ maxDown = MaxAppKeyDowns
  /\ keyset = {shift_l, shift_r}
  /\ callbacks = "app"

\* the binding strings of the configurations explored with the monitors
\* running: the default and a modifier with a trigger key
leftshift_space ==
  <<"l", "e", "f", "t", "s", "h", "i", "f", "t", "+", "s", "p", "a", "c", "e">>

ConfiguredBindings == {leftshift_rightshift, leftshift_space}

\* the application constructed from a configuration and set up by
\* _setup_ptt: the hook-library monitor is registered with self.ptt_keybind,
\* the event-tap monitor is created with require_left_right_shift=True, and
\* both call the application's handlers; the user touches the shift keys
\* and the space bar
InitBinding ==
  /\ startup \in {PushToTalkApp_init(StartupWith(str)) :
                     str \in ConfiguredBindings}
  /\ ptt_keybind = startup.ptt_keybind[1]
  /\ phys = {}
  /\ nDown = 0
  /\ qK = <<>>
  /\ qQ = <<>>
  /\ pressed_keys = {}
  /\ left_shift_pressed = FALSE
  /\ right_shift_pressed = FALSE
  /\ ptt_state = IDLE
  /\ active_trigger_keys = {}
  /\ kthreads = EmptyBag
  /\ q_pressed = {}
  /\ q_active = FALSE
  /\ qthread = QIdle
  /\ shutting_down = FALSE
  /\ ptt_active = FALSE
  /\ is_transcribing = FALSE
  /\ transcriber = None
  /\ running = {}
  /\ nSessions = 0
  /\ hist = HistInit
  /\ InitInjector
  /\ session = SessionInit
  /\ main = MainInit
  /\ reducer = ReducerInit
  /\ audio = AudioInit
  /\ qwait = WaitInit
  /\ wd = WdInit
  /\ track = "order"
  /\ mode = [x \in Monitors |-> "all"]
  /\ maxDown = MaxAppKeyDowns
  /\ keyset = {shift_l, shift_r, Key_space}
  /\ callbacks = "app"

NextBinding ==
  \/ \E k \in {shift_l, shift_r, Key_space} : KeyDown(k)
  \/ \E k \in {shift_l, shift_r, Key_space} : KeyUp(k)
  \/ KbmDeliver
  \/ \E th \in KThreadStates : KbmThreadStep(th)
  \/ QuartzDeliver
  \/ QuartzThreadStep

\* the application with one monitor delivering every event and the other
\* none, and key-downs enough for the binding to be pressed, released and
\* pressed again
InitAgain ==
  /\ InitMonitors
  /\ InitInjector
  /\ session = SessionInit
  /\ main = MainInit
  /\ InitExt
  /\ reducer = ReducerInit
  /\ track = "order"
  /\ \E m \in Monitors :
       mode = [x \in Monitors |-> IF x = m THEN "all" ELSE "none"]
  /\ maxDown = MaxKeyDowns
  /\ keyset = {shift_l, shift_r}
  /\ callbacks = "app"

\* a monitor on its own, as the repository's monitor tests run it: the test
\* callbacks are registered, the user touches any key, and the OS may drop
\* any event on its way to the monitor (the monitors share nothing but the
\* callbacks, so each is explored alone)
InitKeys ==
  /\ InitMonitors
  /\ InitInjector
  /\ session = SessionInit
  /\ main = MainInit
  /\ InitExt
  /\ reducer = ReducerInit
  /\ track = "order"
  /\ \E m \in Monitors :
       mode = [x \in Monitors |-> IF x = m THEN "lossy" ELSE "none"]
  /\ maxDown = MaxKeyDowns
  /\ keyset = Keys
  /\ callbacks = "test"

\* the application: both monitors call PushToTalkApp's handlers; the user
\* touches the two shift keys; a monitor delivers every event or none
InitApp ==
  /\ InitMonitors
  /\ InitInjector
  /\ session = SessionInit
  /\ main = MainInit
  /\ InitExt
  /\ reducer = ReducerInit
  /\ track = "order"
  /\ mode \in [Monitors -> {"all", "none"}]
  /\ maxDown = MaxAppKeyDowns
  /\ keyset = {shift_l, shift_r}
  /\ callbacks = "app"

NextKeys ==
  \/ \E k \in Keys : KeyDown(k)
  \/ \E k \in Keys : KeyRepeat(k)
  \/ \E k \in Keys : KeyUp(k)
  \/ KbmDeliver
  \/ \E th \in KThreadStates : KbmThreadStep(th)
  \/ QuartzDeliver
  \/ QuartzThreadStep

\* a monitor on its own with callbacks that may raise
NextRaise ==
  \/ \E k \in Keys : KeyDown(k)
  \/ \E k \in Keys : KeyRepeat(k)
  \/ \E k \in Keys : KeyUp(k)
  \/ KbmDeliver
  \/ \E th \in KThreadStates : KbmThreadStep(th)
  \/ \E th \in KThreadStates : KbmCallbackRaises(th)
  \/ QuartzDeliver
  \/ QuartzThreadStep
  \/ QuartzCallbackRaises

\* the injector on its own, driven through its API by a producer and a
\* controller thread; no key is touched; t is the part of the history that
\* the behaviour records
InitInj(t) ==
  /\ InitMonitors
  /\ InitInjector
  /\ session = SessionInit
  /\ main = MainInit
  /\ InitExt
  /\ reducer = ReducerInit
  /\ track = t
  /\ mode = [x \in Monitors |-> "none"]
  /\ maxDown = 0
  /\ keyset = {}
  /\ callbacks = "test"

\* the application's run: only the two shift keys are touched, and modifier
\* keys do not auto-repeat
NextApp ==
  \/ \E k \in Keys : KeyDown(k)
  \/ \E k \in Keys : KeyUp(k)
  \/ KbmDeliver
  \/ \E th \in KThreadStates : KbmThreadStep(th)
  \/ QuartzDeliver
  \/ QuartzThreadStep

\* the process at the moment a signal may arrive: the run loop is running,
\* a session is being recorded (active) or none is, and no key is touched
InitShutdown ==
  /\ \E active \in BOOLEAN :
       /\ is_transcribing = active
       /\ transcriber = IF active THEN 1 ELSE None
       /\ running = IF active THEN {1} ELSE {}
       /\ nSessions = IF active THEN 1 ELSE 0
  /\ phys = {}
  /\ nDown = 0
  /\ qK = <<>>
  /\ qQ = <<>>
  /\ ptt_keybind = LRShift
  /\ pressed_keys = {}
  /\ left_shift_pressed = FALSE
  /\ right_shift_pressed = FALSE
  /\ ptt_state = IDLE
  /\ active_trigger_keys = {}
  /\ kthreads = EmptyBag
  /\ q_pressed = {}
  /\ q_active = FALSE
  /\ qthread = QIdle
  /\ shutting_down = FALSE
  /\ ptt_active = FALSE
  /\ hist = HistInit
  /\ InitInjector
  /\ session = SessionInit
  /\ main = MainInit
  /\ InitExt
  /\ reducer = ReducerInit
  /\ track = "order"
  /\ mode = [x \in Monitors |-> "none"]
  /\ maxDown = 0
  /\ keyset = {}
  /\ callbacks = "app"

\* shutdown while the user touches the two shift keys: the run loop is
\* running, SIGTERM may arrive at any time, and one of the monitors
\* delivers every event
InitQuit ==
  /\ InitMonitors
  /\ InitInjector
  /\ session = SessionInit
  /\ main = MainInit
  /\ InitExt
  /\ reducer = ReducerInit
  /\ track = "order"
  /\ \E m \in Monitors :
       mode = [x \in Monitors |-> IF x = m THEN "all" ELSE "none"]
  /\ maxDown = MaxQuitKeyDowns
  /\ keyset = {shift_l, shift_r}
  /\ callbacks = "app"

\* the handlers of the monitors run in their threads while the main thread
\* runs _handle_signal, cleanup() and the end of run(); a handler called
\* after shutting_down is set returns at its first statement
Sigterm ==
  /\ main.nSignals = 0
  /\ Signal(15)

NextQuit ==
  \/ \E k \in Keys : KeyDown(k)
  \/ \E k \in Keys : KeyUp(k)
  \/ KbmDeliver
  \/ \E th \in KThreadStates : KbmThreadStep(th)
  \/ QuartzDeliver
  \/ QuartzThreadStep
  \/ Sigterm
  \/ HandlerStep
  \/ CleanupStep
  \/ RunStep

\* a session's reducer on its own: the tables it was constructed with and
\* what the turns say are any of those above
InitReducer ==
  /\ InitMonitors
  /\ InitInjector
  /\ session = SessionInit
  /\ main = MainInit
  /\ InitExt
  /\ reducer \in {ReducerStart(tb, script) :
                    tb \in Tables, script \in [1..MaxTurns -> Sentences]}
  /\ track = "order"
  /\ mode = [x \in Monitors |-> "none"]
  /\ maxDown = 0
  /\ keyset = {}
  /\ callbacks = "test"

vars == <<keyVars, injVars, ptVars, restVars>>

Spec == InitKeys /\ [][NextKeys]_vars

SpecApp == InitApp /\ [][NextApp]_vars

SpecInj == InitInj("order") /\ [][NextInj]_vars

SpecStop == InitInj("stop") /\ [][NextInj]_vars

SpecGate == InitInj("gate") /\ [][NextInj]_vars

SpecFlush == InitInj("flush") /\ [][NextInj]_vars

SpecIdle == InitInj("idle") /\ [][NextInj]_vars

SpecGen == InitInj("gen") /\ [][NextInj]_vars

SpecTurns == InitTurns /\ [][NextTurns]_vars

SpecSession == InitInj("session") /\ [][NextSession]_vars

\* the session stop with a scheduler that keeps running the stopping
\* thread (its own statements and the injector calls it makes); the audio
\* thread, the websocket thread and the injection worker may stall for ever
SpecSessionLive ==
  /\ InitInj("live")
  /\ [][NextSession]_vars
  /\ WF_vars(StopTranscriptionStep)
  /\ WF_vars(StopTranscriptionInject)
  /\ WF_vars(StopTranscriptionResume)
  /\ WF_vars(ControllerStep)

SpecSessionError == InitInj("error") /\ [][NextSessionError]_vars

SpecKeybind == InitKeybind /\ [][NextKeybind]_vars

SpecAudio == InitAudio /\ [][NextAudio]_vars

SpecWait == InitWait /\ [][NextWait]_vars

SpecStuck == InitStuck /\ [][NextStuck]_vars

SpecBinding == InitBinding /\ [][NextBinding]_vars

SpecRaise == InitKeys /\ [][NextRaise]_vars

\* the monitors started and stopped any number of times, no key touched
SpecRestart == InitInj("order") /\ [][NextRestart]_vars

\* the application being shut down while keys are touched
SpecQuit == InitQuit /\ [][NextQuit]_vars

\* the injector with every thread that has a statement to run scheduled
\* again and again (the calls of its API may or may not come)
SpecDeliver ==
  /\ InitInj("deliver")
  /\ [][NextInj]_vars
  /\ WF_vars(ProducerStep)
  /\ WF_vars(ControllerStep)
  /\ \A i \in TextIds : WF_vars(WorkerStep(i))

SpecAgain == InitAgain /\ [][NextApp]_vars

\* the watchdog and cleanup() with no key touched
SpecWatch == InitInj("order") /\ [][NextWatch]_vars

\* the same with the watchdog thread scheduled again and again
SpecWatchLive ==
  InitInj("order") /\ [][NextWatch]_vars /\ WF_vars(WatchdogLoopStep)

SpecShutdown == InitShutdown /\ [][NextShutdown]_vars

SpecReducer == InitReducer /\ [][NextReducer]_vars

(***************************************************************************)
(* Claims about the monitors (specification Spec)                          *)
(***************************************************************************)
BoundKeys == ptt_keybind.modifiers

\* C1: each monitor has invoked on_press once per interval in which its
\* pressed set equals the binding (the intervals begun so far), and
\* on_release once per such interval that has ended
C1_OncePerInterval ==
  /\ hist.kPress = hist.kInt /\ hist.kRel = hist.kEnd
  /\ hist.qPress = hist.qInt /\ hist.qRel = hist.qEnd

\* the event-tap monitor's half of C1
C1_QuartzOncePerInterval ==
  hist.qPress = hist.qInt /\ hist.qRel = hist.qEnd

\* C2: in each monitor on_press and on_release alternate, starting with
\* on_press: the calls made so far are as many presses as releases while
\* the trigger is not Pressed and one press more while it is, and an event
\* a key-down processed while Pressed led to no on_press, a key-up
\* processed while Idle to no on_release
C2_Alternate ==
  /\ hist.kPress - hist.kRel = Bit(ptt_state = PRESSED)
  /\ hist.qPress - hist.qRel = Bit(q_active)
  /\ (hist.last.ev[1] = "down" /\ hist.last.before = PRESSED)
       => hist.last.call # "press"
  /\ (hist.last.ev[1] = "up" /\ hist.last.before = IDLE)
       => hist.last.call # "release"

\* C2's cases: a monitor has been through a press and its release and then
\* processed a key-up while Idle; a monitor processed the key-down of a
\* bound key while Pressed
C2_WitnessUpWhileIdle ==
  /\ hist.last.mon = "kbm" /\ hist.kPress = 1 /\ hist.kRel = 1
  /\ hist.last.ev[1] = "up" /\ hist.last.before = IDLE

C2_WitnessDown ==
  /\ hist.last.ev[1] = "down" /\ hist.last.before = PRESSED
  /\ hist.last.ev[2] \in BoundKeys

\* C3: a monitor invokes on_press only when its set of pressed keys equals
\* the binding's modifier set
C3_ExactMatch == hist.last.call = "press" => hist.last.exact

\* C4 as claimed: a monitor that processes the key-up of a bound key while
\* its trigger is Pressed invokes on_release in processing it
C4_ReleaseOnAnyBoundKeyUp ==
  (/\ hist.last.ev[1] = "up" /\ hist.last.ev[2] \in BoundKeys
   /\ hist.last.before = PRESSED)
    => hist.last.call = "release"

\* C4 as amended: the same, where for the event-tap monitor the key-state
\* query made while processing the event still reports that key up
C4_ReleaseOnBoundKeyUp ==
  (/\ hist.last.ev[1] = "up" /\ hist.last.ev[2] \in BoundKeys
   /\ hist.last.before = PRESSED
   /\ hist.last.mon = "quartz" => ~hist.last.keyDown)
    => hist.last.call = "release"

\* C4's case: on_release was invoked on the key-up of one shift while the
\* other shift is still tracked as pressed
C4_Witness ==
  /\ hist.last.ev[1] = "up" /\ hist.last.before = PRESSED
  /\ hist.last.call = "release"
  /\ \/ hist.last.mon = "kbm" /\ pressed_keys \cap BoundKeys # {}
     \/ hist.last.mon = "quartz" /\ q_pressed # {}

\* C5: a monitor that has no further event waiting (so that it is not
\* merely behind the keyboard) invokes on_press only at a moment when both
\* bound shift keys are physically down, whatever events were dropped
C5_OnlyWhenBothHeld ==
  (hist.last.call = "press" /\ hist.last.fresh) => hist.last.held

\* the event-tap monitor's half of C5, without the condition on waiting
\* events
C5_QuartzOnlyWhenBothHeld ==
  (hist.last.mon = "quartz" /\ hist.last.call = "press") => hist.last.held

(***************************************************************************)
(* Claims about the application's handlers (specification SpecApp)         *)
(***************************************************************************)
\* no key event is in flight and no thread is inside a handler
Quiescent ==
  /\ qK = <<>> /\ qQ = <<>>
  /\ kthreads = EmptyBag /\ qthread.pc = "idle"

\* C6: with at least one monitor delivering every event (the other all or
\* none), the application never starts more sessions than intervals in
\* which the binding was held; and with the hook-library monitor alone
\* delivering, once everything in flight has been processed the
\* application has started one session per interval begun and stopped one
\* per interval ended
C6_OncePerHeldInterval ==
  /\ (\E m \in Monitors : mode[m] = "all") => nSessions <= hist.pInt
  /\ (mode["kbm"] = "all" /\ mode["quartz"] = "none" /\ Quiescent)
       => (nSessions = hist.pInt /\ hist.stops = hist.pEnd)

\* C7: at most one transcription session (a started, not yet stopped
\* transcriber) exists at any time
C7_AtMostOneSession == Cardinality(running) <= 1

(***************************************************************************)
(* Claims about UnicodeInjector (specifications SpecInj, SpecStop and      *)
(* SpecGate).  The one producer numbers its texts in the order of its      *)
(* calls, so the queue receives them in increasing order.                  *)
(***************************************************************************)
\* C8: every OS effect belongs to a text that is not before, in enqueue
\* order, any text that already had an OS effect: the texts reach the OS in
\* enqueue order and the OS effects of two texts are never interleaved
C8_OutputInEnqueueOrder == ihist.lastOs >= ihist.prevMax

C10_ClosedGateDrops ==
  /\ \A i \in ihist.dropped :
       /\ i \notin ihist.enq
       /\ workers[i].pc = "unborn"
       /\ i \notin ihist.osIds
  /\ ihist.accepted \subseteq ihist.enq

\* C10's case: a text was dropped at the closed gate and, after enable(),
\* a later text was put on the queue
C10_Witness ==
  \E i \in ihist.dropped : \E j \in ihist.accepted : j > i

\* C11: once flush_and_clear() has returned and until enable() is called,
\* the gate is closed, the queue is empty and no OS injection side effect
\* occurs, whatever inject_text and the worker do concurrently
C11_FlushDiscards ==
  ihist.flushed
    => /\ ~accept_new_work
       /\ text_queue = <<>>
       /\ ~ihist.osAfterFlush

\* C12: wait_idle returns True only at a moment when the worker is not
\* running or the queue is empty, and no injection is in progress; and
\* after it has returned True no OS injection side effect occurs until
\* inject_text is called again
C12_IdleMeansNoOutput == ~ihist.trueWhenBusy /\ ~ihist.osAfterIdle

(***************************************************************************)
(* Claims about the session stop (specification SpecSession)               *)
(***************************************************************************)
\* the positions of stop_transcription after its flush_and_clear() call
AfterFlush ==
  {"T2", "T3", "T4", "T5", "T6", "T7", "T8", "T9", "T9r", "T10", "T11", "done"}

InjectorQuiet ==
  /\ producer.pc = "idle" /\ controller.pc = "idle" /\ session.cb = None
  /\ \A i \in TextIds : workers[i].item = NoItem

\* C14: after a normal stop (suppress false) has returned and the injector
\* has come to rest, every text that inject_text had put on the queue
\* before the end of the quiet-period wait has been pasted
C14_TrailingWordsInjected ==
  (~session.suppress /\ session.pc = "done" /\ InjectorQuiet
     /\ text_queue = <<>>)
    => ihist.early \subseteq ihist.pasted

Rank(step) ==
  CASE step = "flag" -> 1
    [] step = "flush" -> 2
    [] step = "stop" -> 3
    [] step \in {"watchdog", "quartz", "kbm"} -> 4
    [] step = "exit" -> 5

Performed == {main.log[i] : i \in 1..Len(main.log)}

\* the steps the shutdown owes before it exits: the flag, the watchdog and
\* both monitors, and with a session the flush and the suppressing stop
Owed ==
  {"flag", "watchdog", "quartz", "kbm"}
    \cup (IF nSessions > 0 THEN {"flush", "stop"} ELSE {})

\* C15 as stated: the shutdown steps are first performed in the order flag,
\* flush_and_clear, suppressing session stop, watchdog and monitors, exit;
\* sys.exit is not called before all of them were performed; the exit
\* status is 128 + the number of a delivered signal; and the body of
\* cleanup() runs at most once
C15_ShutdownInOrder ==
  /\ \A i, j \in 1..Len(main.log) :
       i < j => Rank(main.log[i]) <= Rank(main.log[j])
  /\ "exit" \in Performed => Owed \subseteq Performed
  /\ main.status # None => \E s \in main.sigs : main.status = 128 + s
  /\ main.bodies <= 1

\* C15 amended: the same, where sys.exit is preceded by all the other steps
\* when only one signal was delivered (the handler of a second signal that
\* arrives while cleanup() runs finds cleanup_started set and exits)
C15_SingleSignalShutdownInOrder ==
  /\ \A i, j \in 1..Len(main.log) :
       i < j => Rank(main.log[i]) <= Rank(main.log[j])
  /\ ("exit" \in Performed /\ main.nSignals = 1) => Owed \subseteq Performed
  /\ main.status # None => \E s \in main.sigs : main.status = 128 + s
  /\ main.bodies <= 1

\* C15's case: one signal arrived during a session, its handler ran all
\* the steps, and the process has exited through run()'s finally clause
C15_Witness ==
  /\ main.status = 130 /\ main.nSignals = 1
  /\ main.log = <<"flag", "flush", "stop", "watchdog", "quartz", "kbm",
                  "exit">>
  /\ main.bodies = 1


(***************************************************************************)
(* Claims about the reducer of Turn messages (specification SpecReducer)   *)
(***************************************************************************)
\* C17: whatever Turn messages arrive in whatever order, no word of a turn
\* contributes to a second emitted delta, and no word is emitted after a
\* word of the same turn with a higher index
C17_WordsEmittedOnceInOrder == ~reducer.again /\ ~reducer.disorder

\* the Turn message t handed its delta to inject_text
HandedDelta(t) ==
  t.computed /\ t.injected # <<>> /\ t.injected[1] = t.delta

\* C18 as stated: when the delta computed for a Turn message equals the
\* last emitted delta, or session_text already ends with it, the delta is
\* not handed to inject_text and session_text does not grow by it (the
\* space that closes a turn is not counted); and of two consecutive
\* messages that compute the same delta exactly one hands it to inject_text
C18_DuplicateHandsNothing ==
  /\ reducer.last.known
       => /\ ~HandedDelta(reducer.last)
          /\ reducer.session_text
               = reducer.last.before \o Concat(reducer.last.injected)
  /\ (/\ reducer.prev.computed /\ reducer.last.computed
      /\ reducer.prev.delta = reducer.last.delta)
       => HandedDelta(reducer.prev) # HandedDelta(reducer.last)

\* C18 amended: when the delta computed for a Turn message equals
\* last_output_chunk (the last delta emitted since the last end of turn),
\* or session_text already ends with it, the delta is not handed to
\* inject_text and is not appended to session_text (a message that ends the
\* turn still hands over and appends the closing space); and of two
\* consecutive messages that compute the same delta, the first of which
\* handed it over and did not end the turn, the second does not hand it over
C18_DuplicateDeltaSkipped ==
  /\ (/\ reducer.last.computed
      /\ \/ reducer.last.delta = reducer.last.chunk
         \/ EndsWith(reducer.last.before, reducer.last.delta))
       => /\ ~HandedDelta(reducer.last)
          /\ reducer.last.injected \in {<<>>, <<<<" ">>>>}
          /\ reducer.last.injected # <<>> => reducer.last.closing
          /\ reducer.session_text
               = reducer.last.before \o Concat(reducer.last.injected)
  /\ (/\ reducer.prev.computed /\ reducer.last.computed
      /\ reducer.prev.delta = reducer.last.delta
      /\ HandedDelta(reducer.prev) /\ ~reducer.prev.closing)
       => ~HandedDelta(reducer.last)

\* C18's case: two consecutive messages of a turn computed the same delta
\* (a repeated word), the first handed it to inject_text and the second
\* handed over nothing
C18_Witness ==
  /\ reducer.prev.computed /\ reducer.last.computed
  /\ reducer.prev.delta = reducer.last.delta
  /\ HandedDelta(reducer.prev) /\ ~reducer.prev.closing
  /\ reducer.last.injected = <<>>

\* the newly final words of the last Turn message, cleaned
CleanedWords ==
  [i \in 1..Len(reducer.last.raw) |->
     clean_word_token(reducer.table, reducer.last.raw[i])]

\* C19: when the newly final words of a Turn message, cleaned, are a key of
\* the phrase map, the delta computed is that phrase's replacement (after
\* the leading space, if any), whatever the word map holds: the words
\* forward, slash give "/"
C19_PhraseBeforeWord ==
  (reducer.last.computed
     /\ CleanedWords \in DOMAIN reducer.table.phrase_replacements)
    => Strip(reducer.last.delta)
         = reducer.table.phrase_replacements[CleanedWords]

\* the tokens of the last delta, each preceded by one space when it and the
\* token before it are both outside the joiner set and by nothing otherwise
Spaced ==
  LET toks == reducer.last.tokens
      J == reducer.table.joiner_values
  IN  Concat([i \in 1..Len(toks) |->
                (IF i > 1 /\ toks[i - 1] \notin J /\ toks[i] \notin J
                 THEN <<" ">> ELSE <<>>) \o toks[i]])

\* C20: the delta built from a token sequence is the tokens with exactly
\* one space between two adjacent tokens that are both outside the joiner
\* set and nothing between two tokens one of which is a joiner, after at
\* most one leading space, which never precedes a joiner; the final words
\* open, /, close with / a joiner give "open/close"
C20_JoinerSpacing ==
  reducer.last.computed
    => /\ reducer.last.delta \in {Spaced, <<" ">> \o Spaced}
       /\ reducer.last.tokens[1] \in reducer.table.joiner_values
            => reducer.last.delta = Spaced
       /\ (/\ reducer.last.raw = <<open, solidus, close>>
           /\ solidus \in reducer.table.joiner_values)
            => Strip(reducer.last.delta) = open \o solidus \o close

\* C20's cases: a Turn message made the words open, /, close final at once,
\* with / a joiner and nothing typed before; a delta of two words, neither
\* a joiner, was built after earlier text
C20_Witness ==
  /\ reducer.last.raw = <<open, solidus, close>>
  /\ solidus \in reducer.table.joiner_values
  /\ reducer.last.delta = open \o solidus \o close
  /\ reducer.last.before = <<>>

C20_WitnessSpace ==
  /\ reducer.last.tokens = <<open, open>>
  /\ reducer.last.delta = <<" ">> \o open \o <<" ">> \o open

NoModifierIn(str) ==
  LET parts == Split(LowerStr(str), <<>>)
  IN  \A i \in DOMAIN parts :
        parts[i] \in DOMAIN key_mapping => key_mapping[parts[i]] \notin ModifierKeys

\* C22: whatever the binding string, the constructed application holds a
\* binding with at least one modifier; for a string that names no modifier
\* the parser returns no binding and the application holds the default
\* left+right-shift binding
C22_BindingHasModifier ==
  startup.pc = "ready" =>
    /\ Len(startup.ptt_keybind) = 1
    /\ startup.ptt_keybind[1].modifiers # {}
    /\ (startup.called /\ NoModifierIn(startup.ptt_config))
         => (startup.parsed = <<>> /\ startup.ptt_keybind = <<LRShift>>)

\* an application constructed with a binding string of a key and a character
\* and no modifier, holding the default binding
C22_Witness ==
  /\ startup.pc = "ready"
  /\ startup.called
  /\ startup.ptt_config = <<"s", "p", "a", "c", "e", "+", "a">>
  /\ startup.parsed = <<>>
  /\ startup.ptt_keybind = <<LRShift>>


\* C23: whatever the calls of start_transcription, stop_transcription and
\* cleanup and however they interleave, stop_stream and close are each called
\* at most once on every stream, and a stream that a call outside the lock
\* can find in audio_stream has not been closed
C23_StreamClosedAtMostOnce ==
  /\ \A s \in 1..MaxStreams :
       audio.streams[s].stops <= 1 /\ audio.streams[s].closes <= 1
  /\ (audio.lock = None /\ audio.audio_stream # None)
       => audio.streams[audio.audio_stream].closes = 0

\* a stream has been closed, a later _cleanup_audio call has returned
\* without touching any stream, and both threads are between calls
C23_Witness ==
  /\ audio.spared
  /\ \E s \in 1..MaxStreams : audio.streams[s].closes = 1
  /\ audio.nOpened = MaxStreams
  /\ \A t \in AudioThreads : audio.th[t].pc = "idle"


C25_PressedFollowsQuery ==
  /\ [](q_pressed \subseteq {shift_l, shift_r})
  /\ [][QuartzDeliver => q_pressed' = KeyStateQuery']_vars

\* the monitor has processed the key-down of the left shift when that key
\* was up again and no other event was waiting (its key-up was dropped), the
\* right shift being down, and holds the right shift alone
C25_Witness ==
  /\ hist.last.mon = "quartz"
  /\ hist.last.ev = <<"down", shift_l>>
  /\ ~hist.last.keyDown
  /\ hist.last.fresh
  /\ phys = {shift_r}
  /\ q_pressed = {shift_r}


(***************************************************************************)
(* Claims about the scan of a Turn message (specifications SpecTurns and   *)
(* SpecReducer)                                                            *)
(***************************************************************************)
\* the last Turn message was processed: it was not the formatted variant,
\* it had words and output was not suppressed
Processed ==
  /\ reducer.nEvents > 0
  /\ ~reducer.scan.ev.turn_is_formatted
  /\ reducer.scan.ev.words # <<>>
  /\ ~reducer.suppress_output

\* C26: when an unformatted Turn message is processed, the words committed
\* are those from the index the scan started at up to the first word that is
\* not final, every word that contributed to the delta handed to the
\* injector is one of them, and so no word that is not final and no word
\* after one contributed
C26_FinalityIsPrefix ==
  Processed =>
    LET sc == reducer.scan
        words == sc.ev.words
    IN  /\ sc.start = (IF sc.ev.turn_order = sc.turn_before
                       THEN sc.count_before ELSE 0)
        /\ ~sc.ev.end_of_turn =>
             /\ reducer.committed_word_count >= sc.start
             /\ \A i \in (sc.start + 1)..reducer.committed_word_count :
                  words[i].word_is_final
             /\ reducer.committed_word_count < Len(words)
                  => ~words[reducer.committed_word_count + 1].word_is_final
        /\ \A u \in sc.used :
             /\ u[1] = sc.ev.turn_order
             /\ u[2] > sc.start
             /\ \A i \in (sc.start + 1)..u[2] : words[i].word_is_final

\* a message whose second word is not final and whose third word is final
\* has been processed from index 0: the first word alone was committed and
\* contributed to the delta
C26_Witness ==
  /\ Processed
  /\ Len(reducer.scan.ev.words) = 3
  /\ reducer.scan.ev.words[1].word_is_final
  /\ ~reducer.scan.ev.words[2].word_is_final
  /\ reducer.scan.ev.words[3].word_is_final
  /\ reducer.scan.start = 0
  /\ reducer.committed_word_count = 1
  /\ reducer.scan.used = {<<reducer.scan.ev.turn_order, 1>>}


\* C27: between two messages with the same turn id that leave the turn open
\* committed_word_count does not decrease; a message whose turn id differs
\* from the current one is scanned from index 0; an unformatted end-of-turn
\* message that is processed leaves the count at zero, and the message after
\* it is scanned from index 0
C27_CountMonotoneAndReset ==
  reducer.nEvents > 0 =>
    LET sc == reducer.scan
    IN  /\ (sc.ev.turn_order = sc.turn_before /\ ~reducer.last.closing)
             => reducer.committed_word_count >= sc.count_before
        /\ sc.ev.turn_order # sc.turn_before => sc.start = 0
        /\ reducer.last.closing
             => (reducer.committed_word_count = 0
                 /\ reducer.current_turn_order = None)
        /\ reducer.prev.closing => sc.start = 0

\* an unformatted end-of-turn message closed a turn of which words had been
\* emitted, and the next message, of another turn, was scanned from index 0
\* and its first word contributed to a delta
C27_Witness ==
  /\ reducer.prev.closing
  /\ reducer.prev.raw # <<>>
  /\ reducer.scan.start = 0
  /\ <<reducer.scan.ev.turn_order, 1>> \in reducer.scan.used
  /\ \E e \in reducer.emitted : e[1] # reducer.scan.ev.turn_order

\* C28: a Turn message that is the formatted variant hands nothing to the
\* injector, commits no word, and leaves session_text, the last emitted
\* delta and turn_count as they were, also when it is an end-of-turn message
C28_FormattedChangesNothing ==
  (reducer.nEvents > 0 /\ reducer.scan.ev.turn_is_formatted) =>
    /\ reducer.last.injected = <<>>
    /\ reducer.scan.used = {}
    /\ reducer.committed_word_count <= reducer.scan.count_before
    /\ reducer.session_text = reducer.last.before
    /\ reducer.last_output_chunk = reducer.last.chunk
    /\ reducer.last_emitted = reducer.scan.last_emitted_before
    /\ reducer.turn_count = reducer.scan.turn_count_before

\* the formatted end-of-turn message of a turn has been handled after the
\* unformatted one, with text in the session and output not suppressed
C28_Witness ==
  /\ reducer.scan.ev.turn_is_formatted
  /\ reducer.scan.ev.end_of_turn
  /\ ~reducer.suppress_output
  /\ reducer.prev.closing
  /\ reducer.session_text # <<>>
  /\ reducer.turn_count = 1


(***************************************************************************)
(* Claims about the quiet-period wait (specification SpecWait)             *)
(***************************************************************************)
\* C29: in a stop with suppress false, Terminate is sent and the transport
\* is closed only after the wait has ended; the wait ends only at a moment
\* when no message has arrived for final_quiet or when max_wait has passed
\* since it began (a message during the wait restarts the quiet interval);
\* and it never lasts longer than max_wait, whatever messages arrive
C29_QuietWaitBounded ==
  ~qwait.suppress =>
    /\ (qwait.terminate_sent \/ qwait.ws = "closed") => qwait.ended
    /\ qwait.ended =>
         /\ \/ qwait.end_time - qwait.end_last >= qwait.final_quiet
            \/ qwait.end_time - qwait.start_wait >= qwait.max_wait
         /\ qwait.end_time - qwait.start_wait <= qwait.max_wait
    /\ qwait.pc \in {"Q1", "Q2", "Q3"}
         => qwait.now - qwait.start_wait <= qwait.max_wait

\* a wait during which a message arrived has ended because max_wait had
\* passed, less than final_quiet after the last message, and the transport
\* has been closed
C29_Witness ==
  /\ ~qwait.suppress
  /\ qwait.ws = "closed"
  /\ qwait.during
  /\ qwait.end_time - qwait.start_wait = qwait.max_wait
  /\ qwait.end_time - qwait.end_last < qwait.final_quiet
  /\ qwait.max_wait = MaxWait

\* the guard has passed and the keyboard has not been touched since the
\* pass began
PassUndisturbed ==
  /\ wd.fires > 0 /\ wd.pc = "idle"
  /\ phys = wd.snap.phys /\ nDown = wd.snap.nDown

\* after the pass one key was pressed, both shifts are held, and every
\* event has been delivered and handled
PressAfterPass ==
  /\ wd.fires > 0 /\ wd.pc = "idle"
  /\ nDown = wd.end.nDown + 1
  /\ phys = {shift_l, shift_r}
  /\ qK = <<>> /\ qQ = <<>>
  /\ kthreads = EmptyBag /\ qthread.pc = "idle"

\* C30: once the stuck-state guard has passed, the next press of the
\* binding makes a monitor call on_press again
C30_NextPressFires ==
  PressAfterPass => hist.kPress + hist.qPress > wd.end.presses

\* C30, the state the pass is to leave: both monitors are Idle with no key
\* tracked
C30_MonitorsIdle ==
  PassUndisturbed =>
    /\ ptt_state = IDLE /\ pressed_keys = {} /\ active_trigger_keys = {}
    /\ ~q_active /\ q_pressed = {}

\* C30, what the pass does achieve: the pressed flag is cleared, the
\* hook-library monitor is Idle with no key tracked, and the event-tap
\* monitor keeps what it had
C30_HookMonitorReset ==
  PassUndisturbed =>
    /\ ~ptt_active
    /\ ptt_state = IDLE /\ pressed_keys = {} /\ active_trigger_keys = {}
    /\ q_active = wd.snap.q_active /\ q_pressed = wd.snap.q_pressed

(***************************************************************************)
(* Claims about the configured binding (specification SpecBinding)         *)
(***************************************************************************)
\* the keys of the configured binding: its modifiers and its trigger key
ConfiguredKeys ==
  ptt_keybind.modifiers \cup ({ptt_keybind.key, ptt_keybind.char} \ {NoKey})

\* C31: whatever binding is configured, a monitor calls the application's
\* on_press only while handling a key-down event after which its pressed
\* set equals the configured binding
C31_PressOnlyOnBinding ==
  [][/\ hist.kPress' > hist.kPress =>
          (Head(qK)[1] = "down" /\ pressed_keys' = ConfiguredKeys)
     /\ hist.qPress' > hist.qPress =>
          (Head(qQ)[1] = "down" /\ q_pressed' = ConfiguredKeys)]_vars

\* C31 for the default binding alone
C31_DefaultBindingOnly ==
  [][ptt_keybind = LRShift =>
       /\ hist.kPress' > hist.kPress =>
            (Head(qK)[1] = "down" /\ pressed_keys' = ConfiguredKeys)
       /\ hist.qPress' > hist.qPress =>
            (Head(qQ)[1] = "down" /\ q_pressed' = ConfiguredKeys)]_vars

(***************************************************************************)
(* Claims about the threads the callbacks run on (specification SpecApp)   *)
(***************************************************************************)
\* the positions inside _start_transcription and _stop_transcription
SessionWorkPcs == {"S0", "S1", "S2", "T0", "T1", "T2", "T3"}

\* C32: the session start and stop work of the handlers never runs on a
\* monitor's delivery thread (the hook-library monitor's listener thread
\* handles an event in one step and is never inside a handler; the
\* event-tap monitor's run-loop thread is qthread), and no key event waits
\* for a delivery thread that is inside a session stop
C32_DeliveryThreadFree ==
  /\ qthread.pc \notin SessionWorkPcs
  /\ ~(qthread.pc = "T2" /\ qQ # <<>>)

(***************************************************************************)
(* Claims about callbacks that raise (specification SpecRaise)             *)
(***************************************************************************)
\* what is left of a callback thread whose callback has returned
AfterReturn(th) ==
  IF th.pc \in ReleasePcs THEN SetToBag({[pc |-> "F0", t |-> None]})
  ELSE EmptyBag

\* C33: an exception raised by a callback never leaves the monitor's
\* handler: the step in which a callback raises leaves the monitor's
\* fields as they are and the callback's thread where a return would have
\* left it (the run-loop thread back in its loop); the trigger is Pressed
\* exactly after a press without its release, in both monitors, and is
\* RELEASED only while the thread of the release is still to set it back
\* to Idle
C33_ExceptionsSwallowed ==
  /\ [][hist.raised' > hist.raised =>
          /\ UNCHANGED <<kbmVars, quartzVars, qK, qQ>>
          /\ \/ /\ qthread' = qthread
                /\ \E th \in BagToSet(kthreads) :
                     kthreads' = (kthreads (-) SetToBag({th})) (+) AfterReturn(th)
             \/ /\ kthreads' = kthreads
                /\ qthread.pc # "idle" /\ qthread' = QIdle]_vars
  /\ [](hist.kPress - hist.kRel = Bit(ptt_state = PRESSED))
  /\ [](hist.qPress - hist.qRel = Bit(q_active))
  /\ [](ptt_state = RELEASED =>
          \E th \in BagToSet(kthreads) : th.pc \in ReleasePcs \cup {"F0"})

\* the callback of a release has raised, its thread has ended, and the
\* monitor has since called on_press for the next press of the binding
C33_Witness ==
  /\ hist.raised > 0 /\ hist.kRel = 1 /\ hist.kPress = 2
  /\ kthreads = EmptyBag /\ ptt_state = PRESSED

(***************************************************************************)
(* Claims about the watchdog (specifications SpecWatch, SpecWatchLive)     *)
(***************************************************************************)
\* C34: a monitor whose delivery thread has died is restarted by the
\* watchdog unless shutdown stops the watchdog first, and once cleanup()
\* has stopped the watchdog and the monitors no monitor is running
C34_RestartedUntilShutdown ==
  /\ [](~wd.kbm_up => <>(wd.kbm_up \/ wd.stop))
  /\ [](~wd.quartz_up => <>(wd.quartz_up \/ wd.stop))
  /\ [](wd.cleanup = "done" => (~wd.kbm_up /\ ~wd.quartz_up))

\* C34, its first part: a dead delivery thread is restarted unless
\* shutdown stops the watchdog first
C34_EventuallyRestarted ==
  /\ [](~wd.kbm_up => <>(wd.kbm_up \/ wd.stop))
  /\ [](~wd.quartz_up => <>(wd.quartz_up \/ wd.stop))

\* C34, its second part: once cleanup() has stopped the watchdog and the
\* monitors, no monitor is running
C34_NoRestartAfterShutdown ==
  wd.cleanup = "done" => (~wd.kbm_up /\ ~wd.quartz_up)

(***************************************************************************)
(* Claims about the application under every scheduling of the callbacks    *)
(* (specification SpecApp)                                                 *)
(***************************************************************************)
\* C35: once both bound keys are up, every event has been delivered and
\* every callback has finished, ptt_active is false and no transcription
\* session is active
C35_ActiveOnlyWhileHeld ==
  (/\ phys \cap {shift_l, shift_r} = {}
   /\ qK = <<>> /\ qQ = <<>>
   /\ kthreads = EmptyBag /\ qthread.pc = "idle")
    => (~ptt_active /\ ~is_transcribing /\ running = {})

\* C35 with the hook-library monitor alone delivering
C35_HookMonitorAlone ==
  (mode["kbm"] = "all" /\ mode["quartz"] = "none") => C35_ActiveOnlyWhileHeld

(***************************************************************************)
(* Claims about a press during a stop (specification SpecAgain)            *)
(***************************************************************************)
\* C36: it never happens that the binding is held, the application is not
\* shutting down, every event has been delivered and every callback has
\* finished, and no transcription session is active
C36_PressNeverLost ==
  (Held(phys) /\ ~shutting_down /\ Quiescent)
    => (is_transcribing /\ running # {})

\* C36 with the event-tap monitor alone delivering
C36_EventTapAlone ==
  mode["quartz"] = "all" => C36_PressNeverLost

(***************************************************************************)
(* Claims about the injection worker (specifications SpecInj, SpecDeliver) *)
(***************************************************************************)
\* the worker threads that have been started and have not ended
LiveWorkers == {i \in TextIds : workers[i].pc \notin {"unborn", "dead"}}

\* C37: at most one injection worker thread is alive at any time
C37_AtMostOneWorker == Cardinality(LiveWorkers) <= 1

\* C38: every text that inject_text has put on the queue is eventually
\* pasted, unless a stop(), disable() or flush_and_clear() follows it: one
\* that, after the inject_text began, is called or runs a statement that
\* comes before its join (closing the gate, setting the stop events,
\* advancing the generation, emptying the queue)
C38_EnqueuedIsInjected ==
  \A i \in TextIds :
    [](i \in ihist.enq \ ihist.followed
         => <>(i \in ihist.pasted \cup ihist.followed))

(***************************************************************************)
(* Claims about shutdown racing the handlers (specification SpecQuit)      *)
(***************************************************************************)
\* the body of cleanup() has run and cleanup() has returned; the process
\* has not ended yet
CleanupReturned ==
  /\ main.bodies > 0
  /\ main.stack # <<>>
  /\ \A i \in 1..Len(main.stack) : main.stack[i].fn # "cleanup"

\* C39: once cleanup() has returned, is_transcribing is false and no
\* transcriber is running, whatever a press handler that is being executed
\* does
C39_NoSessionAfterCleanup ==
  CleanupReturned => (~is_transcribing /\ running = {})

(***************************************************************************)
(* Claims about the threads of a monitor (specification SpecRestart)       *)
(***************************************************************************)
\* C40: while a monitor is started (its last call that returned is start()
\* and no call is being executed) exactly one supervising thread and at
\* most one delivery thread are alive, and while it is stopped none is
C40_OneSupervisor ==
  \A m \in Monitors :
    wd.mon[m].call = "idle" =>
      IF wd.mon[m].started
      THEN /\ Cardinality(Supervisors(wd.mon[m])) = 1
           /\ Cardinality(Deliverers(wd.mon[m])) <= 1
      ELSE /\ Supervisors(wd.mon[m]) = {}
           /\ Deliverers(wd.mon[m]) = {}

\* C40, while started only: the supervising threads neither accumulate nor
\* go missing, and there is at most one delivery thread
C40_StartedThreads ==
  \A m \in Monitors :
    (wd.mon[m].call = "idle" /\ wd.mon[m].started) =>
      /\ Cardinality(Supervisors(wd.mon[m])) = 1
      /\ Cardinality(Deliverers(wd.mon[m])) <= 1

\* C40 for the hook-library monitor, while started
C40_HookSupervisor ==
  (wd.mon["kbm"].call = "idle" /\ wd.mon["kbm"].started) =>
    Cardinality(Supervisors(wd.mon["kbm"])) = 1

\* C40 for the event tap, while started
C40_TapSupervisor ==
  (wd.mon["quartz"].call = "idle" /\ wd.mon["quartz"].started) =>
    Cardinality(Supervisors(wd.mon["quartz"])) = 1

====
